---- MODULE Spec2Model ----
(***************************************************************************)
(* LLM Council backend: the fan-out of model calls (openrouter.py), the    *)
(* conversation endpoints of main.py (get_conversation, send_message and   *)
(* the streaming event_generator of send_message_stream) and the           *)
(* conversation store they use (storage.py).  The stage functions of       *)
(* backend/council.py are imported by main.py; their behaviour -- label    *)
(* assignment, ranking parser, aggregate rankings -- is taken from the     *)
(* design document.                                                        *)
(*                                                                         *)
(* Specifications: Spec (one request served by an endpoint), SpecFan       *)
(* (query_models_parallel alone), SpecParse and SpecAggregate (the ranking *)
(* parser and calculate_aggregate_rankings alone), SpecStore (the          *)
(* functions of storage.py called one after another), SpecList             *)
(* (list_conversations under a clock), SpecWrites (concurrent storage      *)
(* calls on one conversation), SpecRequests (concurrent message requests   *)
(* on one conversation), SpecClients (the HTTP clients of openrouter.py)   *)
(* and SpecCache (the title cache).                                        *)
(***************************************************************************)
EXTENDS Naturals, Integers, Sequences, FiniteSets, TLC

\* ------------------------------------------------------------------ bounds
\* Number of distinct model identifiers (identifiers are 1..NumModels).
NumModels == 3
\* Longest model list handed to query_models_parallel on its own, and the
\* number of identifiers such a list draws from.
MaxLen == 3
NumFanIds == 2
\* Longest ranking text (in tokens) handed to the ranking parser on its own.
MaxText == 4
\* Number of labels and largest number of judges of the rankings that are
\* aggregated on their own.
NumLabels == 2
MaxJudges == 3
\* Most messages a stored conversation grows to when storage.py is
\* exercised on its own.
MaxMessages == 2
\* The last reading of the clock, and the ticks of the clock in a second.
MaxClock == 3
TicksPerSecond == 2
\* Most coroutines that run concurrently.
MaxTasks == 3
\* The number of concurrent storage calls on one conversation, and of
\* concurrent message requests for one conversation.
NumWriters == 2
NumRequests == 2
\* The title cache at a small scale: CacheLimit entries stand for the 100 of
\* line 186 and TitleChars characters for the 50 of line 180; MaxCalls is
\* the number of generate_title_cached calls made in a row.
CacheLimit == 2
TitleChars == 2
MaxCalls == 4

ModelIds == 1..NumModels

\* settings.council_models: the ordered list of council model identifiers.
CouncilModels == [i \in 1..NumModels |-> i]

\* settings.chairman_model (the default chairman is also a council member).
ChairmanModel == 1

VARIABLES
    endpoint,        \* what runs: "stream", "sync", "get", or a library call
    pc,              \* position of the handler / generator
    conv,            \* the stored conversation file (or NoConv)
    is_first_message,\* main.py: is_first_message
    title_task,      \* the title generation task / awaited call
    models,          \* query_models_parallel: argument `models`
    calls,           \* query_models_parallel: state of each gathered task
    completion,      \* indices of the gathered tasks in the order they finished
    fan_stage,       \* which stage issued the gathered batch (0 = direct call)
    result,          \* query_models_parallel: the returned dict (ordered)
    chairman,        \* the stage-3 query_model call
    stage1_results,
    stage2_results,
    label_to_model,
    stage3_result,
    events,          \* events yielded by event_generator, oldest first
    response,        \* what the HTTP handler answered
    files,           \* storage.py: the files of DATA_DIR, by conversation id
    args,            \* the library call made on its own, with its arguments
    ret,             \* what that call returned or raised
    clock,           \* the reading datetime.utcnow() gives
    _client,         \* openrouter.py: the global HTTP client (or NoClient)
    clients,         \* every httpx.AsyncClient created so far, by number
    _title_cache,    \* openrouter.py: the title cache, oldest insertion first
    tasks            \* the coroutines running concurrently, by number

vars == <<endpoint, pc, conv, is_first_message, title_task, models, calls,
          completion, fan_stage, result, chairman, stage1_results, stage2_results,
          label_to_model, stage3_result, events, response, files, args, ret,
          clock, _client, clients, _title_cache, tasks>>

\* The state of the library functions exercised on their own.
netVars == <<_client, clients>>
libVars == <<files, args, ret, clock, _client, clients, _title_cache, tasks>>

fanVars == <<models, calls, completion, fan_stage, result>>
runVars == <<conv, is_first_message, title_task, chairman, stage1_results,
             stage2_results, label_to_model, stage3_result, events, response>>

\* `_client = None` (line 17): no global HTTP client.
NoClient == 0

\* No library function has been called, no client exists, the title cache
\* is empty and nothing runs concurrently.
NoLibrary ==
    /\ clock = 0
    /\ _client = NoClient
    /\ clients = <<>>
    /\ _title_cache = <<>>
    /\ tasks = <<>>

\* ------------------------------------------------------------ call values
\* A task that has not resolved yet.
Pending == [kind |-> "pending", content |-> 0]
\* query_model returned a response dict; content identifies the reply to
\* the i-th request of the batch.
Reply(i) == [kind |-> "resp", content |-> i]
\* query_model returned None.
None == [kind |-> "none", content |-> 0]
\* query_model raised (the task holds an exception).
Raised == [kind |-> "exc", content |-> 0]
\* No call has been made.
NotIssued == [kind |-> "idle", content |-> 0]

\* What the gateway / environment does to one call.
Causes == {"response", "http_status", "timeout", "request_error",
           "malformed", "unexpected", "raises"}

\* query_model: the value the coroutine of request i ends with, by cause.
\*   response       -> the dict built at lines 91-94
\*   http_status    -> None (line 100)      timeout   -> None (line 103)
\*   request_error  -> None (line 106)      malformed -> None (line 109)
\*   unexpected     -> None (line 112)
\*   raises         -> the exception leaves the coroutine (line 60, or
\*                     get_http_client at line 74, outside the try)
QueryModel(i, cause) ==
    CASE cause = "response" -> Reply(i)
      [] cause = "raises"   -> Raised
      [] OTHER              -> None

\* --------------------------------------------------- query_models_parallel
\* tasks = [query_model(model, messages) for model in models]; gather
\* schedules every one of them at once.
QmpIssue(ms, stage) ==
    /\ models' = ms
    /\ calls' = [i \in 1..Len(ms) |-> Pending]
    /\ completion' = <<>>
    /\ fan_stage' = stage
    /\ result' = <<>>

\* await asyncio.gather(*tasks, return_exceptions=True) resumes when any
\* task is done (the behaviour of asyncio.wait FIRST_COMPLETED).
QmpCanReturnFirstCompleted ==
    \/ Len(calls) = 0
    \/ \E i \in 1..Len(calls) : calls[i] # Pending

\* The tasks awaited with asyncio.wait, which does not accept an empty
\* set of tasks.
QmpCanReturnNonEmpty ==
    /\ calls # <<>>
    /\ \A i \in 1..Len(calls) : calls[i] # Pending

\* await asyncio.gather(*tasks, return_exceptions=True) resumes only when
\* every task is done.  With return_exceptions=True a task's exception is
\* handed back as a value, so the except clause of lines 143-145 is not
\* entered by any outcome of the calls.
QmpCanReturn ==
    \A i \in 1..Len(calls) : calls[i] # Pending

\* The isinstance test of line 152 left out: the exception object is stored.
FoldResponseKeepException(r) == r

\* Lines 151-156: an exception object becomes None, anything else is kept.
FoldResponse(r) == IF r.kind = "exc" THEN None ELSE r

\* result[model] = value on an insertion-ordered dict: an existing key keeps
\* its position and takes the new value, a new key is appended.
DictSet(d, k, v) ==
    IF \E j \in 1..Len(d) : d[j].model = k
    THEN [j \in 1..Len(d) |-> IF d[j].model = k
                              THEN [model |-> k, value |-> v] ELSE d[j]]
    ELSE Append(d, [model |-> k, value |-> v])

\* The loop of lines 151-158 over zip(models, responses): responses is in
\* task order, so position n of models meets the response of task n.
RECURSIVE ZipLoop(_, _, _)
ZipLoop(ms, rs, n) ==
    IF n = 0 THEN <<>>
    ELSE DictSet(ZipLoop(ms, rs, n - 1), ms[n], FoldResponse(rs[n]))

\* The dict built from the responses taken in the order the tasks finished
\* (as a loop over asyncio.as_completed would see them).
QmpResultByCompletion(ms, rs) ==
    ZipLoop(ms, [n \in 1..Len(ms) |-> rs[completion[n]]], Len(ms))

\* The dict query_models_parallel returns (lines 148-161): gather hands
\* back the responses in task order.
QmpResult(ms, rs) == ZipLoop(ms, rs, Len(ms))

\* One gathered task runs to its end; when it fails, the tasks still running
\* are cancelled (the behaviour of a task group).
ResolveCancelSiblings(i, cause) ==
    /\ i \in 1..Len(calls)
    /\ calls[i] = Pending
    /\ calls' = [j \in 1..Len(calls) |->
                    IF j = i THEN QueryModel(i, cause)
                    ELSE IF calls[j] = Pending /\ cause # "response"
                    THEN Raised ELSE calls[j]]
    /\ completion' = Append(completion, i)
    /\ UNCHANGED <<endpoint, pc, models, fan_stage, result>>
    /\ UNCHANGED runVars
    /\ UNCHANGED libVars

\* One gathered task runs to its end.  Nothing else is touched: the task
\* owns its slot.
Resolve(i, cause) ==
    /\ i \in 1..Len(calls)
    /\ calls[i] = Pending
    /\ calls' = [calls EXCEPT ![i] = QueryModel(i, cause)]
    /\ completion' = Append(completion, i)
    /\ UNCHANGED <<endpoint, pc, models, fan_stage, result>>
    /\ UNCHANGED runVars
    /\ UNCHANGED libVars

\* ------------------------------------------------------------ the store
\* No file for the conversation id: storage.get_conversation returns None.
NoConv == [exists |-> FALSE, title |-> "", messages |-> <<>>]
\* The handler has not answered yet.
NoResponse == [status |-> 0, body |-> <<>>]
\* No stage-3 result.
NoStage3 == [model |-> 0, response |-> 0]

\* storage.create_conversation: the file of a fresh conversation.
NewConversation ==
    [exists |-> TRUE, title |-> "New Conversation", messages |-> <<>>]

UserMessage ==
    [role |-> "user", stage1 |-> <<>>, stage2 |-> <<>>, stage3 |-> NoStage3]

AssistantMessage(s1, s2, s3) ==
    [role |-> "assistant", stage1 |-> s1, stage2 |-> s2, stage3 |-> s3]

\* A conversation that already holds one exchange.
OldConversation ==
    [exists |-> TRUE, title |-> "Old title",
     messages |-> <<UserMessage, AssistantMessage(<<>>, <<>>, NoStage3)>>]

\* How a storage call can end: it returns, the file I/O raises OSError, or
\* the function raises ValueError (conversation unreadable, empty title).
StorageOutcomes == {"ok", "OSError", "ValueError"}

\* The title generate_conversation_title produces.
GeneratedTitle == "Generated title"

\* ----------------------------------------------------------------- events
Event(type, data, metadata) ==
    [type |-> type, data |-> data, metadata |-> metadata]

\* The except clause of event_generator (lines 264-267).
ErrorEvent == Event("error", <<"Internal server error">>, <<>>)

EventTypes == [i \in 1..Len(events) |-> events[i].type]

Emitted(type) == \E i \in 1..Len(events) : events[i].type = type

\* ----------------------------------------------- failure of the request
\* The except clauses of the handlers (lines 125-129, 183-187 and 278-282):
\* ValueError becomes 400, every other Exception -- HTTPException(404)
\* included -- becomes 500.
HandlerStatus(exc) == IF exc = "ValueError" THEN 400 ELSE 500

\* The except clause followed by the completion event (as if `complete`
\* were yielded in a finally block).
FailThenComplete(exc) ==
    /\ pc' = "done"
    /\ IF endpoint = "stream"
       THEN /\ events' = events \o <<ErrorEvent, Event("complete", <<>>, <<>>)>>
            /\ UNCHANGED response
       ELSE /\ response' = [status |-> HandlerStatus(exc), body |-> <<>>]
            /\ UNCHANGED events

\* The except clause reporting the error without leaving the pipeline (as
\* if each step had its own try/except).
FailAndContinue(exc) ==
    /\ pc' = pc
    /\ IF endpoint = "stream"
       THEN /\ events' = Append(events, ErrorEvent)
            /\ UNCHANGED response
       ELSE /\ response' = [status |-> HandlerStatus(exc), body |-> <<>>]
            /\ UNCHANGED events

\* The except clause answering with the stage results gathered so far.
FailWithPartial(exc) ==
    /\ pc' = "done"
    /\ IF endpoint = "stream"
       THEN /\ events' = Append(events, ErrorEvent)
            /\ UNCHANGED response
       ELSE /\ response' = [status |-> HandlerStatus(exc),
                            body |-> <<[stage1 |-> stage1_results,
                                        stage2 |-> stage2_results,
                                        stage3 |-> stage3_result,
                                        metadata |-> label_to_model]>>]
            /\ UNCHANGED events

\* The except clause with the text of the exception as the message of the
\* error event (`'message': str(e)`).
FailWithDetail(exc) ==
    /\ pc' = "done"
    /\ IF endpoint = "stream"
       THEN /\ events' = Append(events, Event("error", <<exc>>, <<>>))
            /\ UNCHANGED response
       ELSE /\ response' = [status |-> HandlerStatus(exc), body |-> <<>>]
            /\ UNCHANGED events

\* An exception leaves the body of the handler.  event_generator yields the
\* error event and ends; send_message answers with an HTTP error.
Fail(exc) ==
    /\ pc' = "done"
    /\ IF endpoint = "stream"
       THEN /\ events' = Append(events, ErrorEvent)
            /\ UNCHANGED response
       ELSE /\ response' = [status |-> HandlerStatus(exc), body |-> <<>>]
            /\ UNCHANGED events

\* ------------------------------------------------- the stages (council.py)
Range(s) == {s[i] : i \in DOMAIN s}

Injective(f) == \A i, j \in DOMAIN f : f[i] = f[j] => i = j

\* The failed calls kept in the stage results with an empty response.
RECURSIVE SuccessesKeepFailed(_)
SuccessesKeepFailed(d) ==
    IF d = <<>> THEN <<>>
    ELSE Append(SuccessesKeepFailed(SubSeq(d, 1, Len(d) - 1)),
                [model |-> d[Len(d)].model,
                 response |-> d[Len(d)].value.content])

\* stage1_collect_responses: the successful responses, in dict order.
RECURSIVE Successes(_)
Successes(d) ==
    IF d = <<>> THEN <<>>
    ELSE LET rest == Successes(SubSeq(d, 1, Len(d) - 1))
             e == d[Len(d)]
         IN IF e.value.kind = "resp"
            THEN Append(rest, [model |-> e.model, response |-> e.value.content])
            ELSE rest

\* Anonymizer: label j (A, B, C, ...) is the j-th successful response.
LabelToModel(s1) == [j \in 1..Len(s1) |-> s1[j].model]

\* The judges of stage 2: the models that hold a label.
Judges(s1) == [j \in 1..Len(s1) |-> s1[j].model]

\* A ranking text is the sequence of its tokens: a label (1 for A, 2 for B,
\* ...) or 0 for anything else.
Prose == 0

\* Every label token found in the text, repeated and unknown ones included.
ParseRankingAllMatches(text, valid) == SelectSeq(text, LAMBDA t : t # Prose)

\* Ranking Parser: scan the tokens in order; keep the first occurrence of
\* each valid label, ignore later duplicates and everything else.
RECURSIVE ParseRanking(_, _)
ParseRanking(text, valid) ==
    IF text = <<>> THEN <<>>
    ELSE LET rest == ParseRanking(SubSeq(text, 1, Len(text) - 1), valid)
             t == text[Len(text)]
         IN IF t \in valid /\ t \notin Range(rest)
            THEN Append(rest, t)
            ELSE rest

\* The text the i-th judge of a batch answers with: its own label first,
\* some prose, then every label of a full council in turn -- so it repeats
\* its first label and names labels that may not have been assigned.
RankingText(i) ==
    <<i, Prose>> \o [k \in 1..NumModels |-> ((i + k - 1) % NumModels) + 1]

\* stage2_collect_rankings: one ModelRanking per judge that answered.
RECURSIVE Rankings(_, _)
Rankings(d, valid) ==
    IF d = <<>> THEN <<>>
    ELSE LET rest == Rankings(SubSeq(d, 1, Len(d) - 1), valid)
             e == d[Len(d)]
         IN IF e.value.kind = "resp"
            THEN Append(rest,
                        [model |-> e.model,
                         ranking |-> RankingText(e.value.content),
                         parsed_ranking |->
                             ParseRanking(RankingText(e.value.content), valid)])
            ELSE rest

\* ---------------------------------------- calculate_aggregate_rankings
\* The position counted from 0 (enumerate without start=1).
PositionInFromZero(r, l) == (CHOOSE p \in 1..Len(r) : r[p] = l) - 1

\* The 1-indexed position of a label in a parsed ranking that holds it.
PositionIn(r, l) == CHOOSE p \in 1..Len(r) : r[p] = l

\* The labels in the order the rankings first mention them.
RECURSIVE MentionedLabels(_)
MentionedLabels(s2) ==
    IF s2 = <<>> THEN <<>>
    ELSE LET rest == MentionedLabels(SubSeq(s2, 1, Len(s2) - 1))
             r == s2[Len(s2)].parsed_ranking
         IN rest \o SelectSeq(r, LAMBDA l : l \notin Range(rest))

\* Sum of the positions of label l over the rankings that mention it.
RECURSIVE RankSum(_, _)
RankSum(s2, l) ==
    IF s2 = <<>> THEN 0
    ELSE LET r == s2[Len(s2)].parsed_ranking
         IN RankSum(SubSeq(s2, 1, Len(s2) - 1), l)
              + (IF l \in Range(r) THEN PositionIn(r, l) ELSE 0)

RankingsCount(s2, l) ==
    Cardinality({k \in 1..Len(s2) : l \in Range(s2[k].parsed_ranking)})

\* One AggregateRanking.  average_rank is the mean of the positions, kept
\* as the fraction <<sum of positions, number of positions>>.
AggregateRanking(s2, l2m, l) ==
    [model |-> l2m[l],
     average_rank |-> <<RankSum(s2, l), RankingsCount(s2, l)>>,
     rankings_count |-> RankingsCount(s2, l)]

\* Comparison of two means given as fractions.
AvgLess(a, b) == a[1] * b[2] < b[1] * a[2]
AvgEqual(a, b) == a[1] * b[2] = b[1] * a[2]

\* Sort key reduced to the average rank.
BeforeByAverageOnly(x, y) == AvgLess(x.average_rank, y.average_rank)

\* The sort key: average_rank ascending, then the higher rankings_count,
\* then the model identifier (identifiers are numbered in lexical order).
Before(x, y) ==
    \/ AvgLess(x.average_rank, y.average_rank)
    \/ /\ AvgEqual(x.average_rank, y.average_rank)
       /\ \/ x.rankings_count > y.rankings_count
          \/ /\ x.rankings_count = y.rankings_count
             /\ x.model < y.model

\* A stable sort: an entry goes behind the entries it is not before.
InsertSorted(sorted, e) ==
    LET k == Cardinality({i \in 1..Len(sorted) : ~Before(e, sorted[i])})
    IN SubSeq(sorted, 1, k) \o <<e>> \o SubSeq(sorted, k + 1, Len(sorted))

RECURSIVE SortAggregate(_)
SortAggregate(entries) ==
    IF entries = <<>> THEN <<>>
    ELSE InsertSorted(SortAggregate(SubSeq(entries, 1, Len(entries) - 1)),
                      entries[Len(entries)])

\* The entries of the ranked models, in the order of first mention, sorted.
CalculateAggregateRankings(s2, l2m) ==
    LET order == SelectSeq(MentionedLabels(s2),
                           LAMBDA l : l \in DOMAIN l2m)
    IN SortAggregate([j \in 1..Len(order) |->
                         AggregateRanking(s2, l2m, order[j])])

\* ---------------------------------------------------------------- handlers
\* Lines 119-122, 144-150 and 202-208: look the conversation up.  The GET
\* endpoint returns it; the message endpoints go on to store the message.
CheckConversation ==
    /\ pc = "check"
    /\ IF conv.exists
       THEN IF endpoint = "get"
            THEN /\ response' = [status |-> 200, body |-> <<conv>>]
                 /\ pc' = "done"
                 /\ UNCHANGED is_first_message
            ELSE /\ is_first_message' = (Len(conv.messages) = 0)
                 /\ pc' = "add_user"
                 /\ response' = IF endpoint = "stream"
                                THEN [status |-> 200, body |-> <<>>]
                                ELSE response
       ELSE \* HTTPException(404) is raised inside the try and caught by
            \* `except Exception`
            /\ response' = [status |-> HandlerStatus("HTTPException"),
                            body |-> <<>>]
            /\ pc' = "done"
            /\ UNCHANGED is_first_message
    /\ UNCHANGED <<endpoint, conv, title_task, chairman, stage1_results,
                   stage2_results, label_to_model, stage3_result, events>>
    /\ UNCHANGED fanVars
    /\ UNCHANGED libVars

\* Line 213 with the failure of the store logged and the run going on.
AddUserMessageBestEffort(outcome) ==
    /\ pc = "add_user"
    /\ conv' = IF outcome = "ok"
               THEN [conv EXCEPT !.messages = Append(@, UserMessage)]
               ELSE conv
    /\ pc' = IF endpoint = "stream" THEN "s1_start"
             ELSE IF is_first_message THEN "title_start"
             ELSE "s1_issue"
    /\ UNCHANGED <<endpoint, is_first_message, title_task, chairman,
                   stage1_results, stage2_results, label_to_model,
                   stage3_result, events, response>>
    /\ UNCHANGED fanVars
    /\ UNCHANGED libVars

\* storage.add_user_message (lines 153 and 213).
AddUserMessage(outcome) ==
    /\ pc = "add_user"
    /\ IF outcome = "ok"
       THEN /\ conv' = [conv EXCEPT !.messages = Append(@, UserMessage)]
            /\ pc' = IF endpoint = "stream" THEN "s1_start"
                     ELSE IF is_first_message THEN "title_start"
                     ELSE "s1_issue"
            /\ UNCHANGED <<events, response>>
       ELSE /\ Fail(outcome)
            /\ UNCHANGED conv
    /\ UNCHANGED <<endpoint, is_first_message, title_task, chairman,
                   stage1_results, stage2_results, label_to_model,
                   stage3_result>>
    /\ UNCHANGED fanVars
    /\ UNCHANGED libVars

\* send_message line 157: the title call is issued and awaited in line.
SyncStartTitle ==
    /\ pc = "title_start"
    /\ title_task' = "pending"
    /\ pc' = "title_join"
    /\ UNCHANGED <<endpoint, conv, is_first_message, chairman, stage1_results,
                   stage2_results, label_to_model, stage3_result, events,
                   response>>
    /\ UNCHANGED fanVars
    /\ UNCHANGED libVars

\* generate_conversation_title ends: with a title, or with an exception.
TitleResolve(outcome) ==
    /\ title_task = "pending"
    /\ title_task' = outcome
    /\ UNCHANGED <<endpoint, pc, conv, is_first_message, chairman,
                   stage1_results, stage2_results, label_to_model,
                   stage3_result, events, response>>
    /\ UNCHANGED fanVars
    /\ UNCHANGED libVars

\* Lines 216-223: create the title task for a first message, then yield
\* stage1_start.
EmitStage1Start ==
    /\ pc = "s1_start"
    /\ title_task' = IF is_first_message THEN "pending" ELSE "none"
    /\ events' = Append(events, Event("stage1_start", <<>>, <<>>))
    /\ pc' = "s1_issue"
    /\ UNCHANGED <<endpoint, conv, is_first_message, chairman, stage1_results,
                   stage2_results, label_to_model, stage3_result, response>>
    /\ UNCHANGED fanVars
    /\ UNCHANGED libVars

\* stage1_collect_responses fans out over the council.
Stage1Issue ==
    /\ pc = "s1_issue"
    /\ QmpIssue(CouncilModels, 1)
    /\ pc' = "s1_wait"
    /\ UNCHANGED endpoint
    /\ UNCHANGED runVars
    /\ UNCHANGED libVars

\* The stage-1 fan-out returns; event_generator yields stage1_complete
\* (line 226), run_full_council goes on to stage 2.  The order in which the
\* tasks finished is not kept past the return of the stage function.
Stage1Complete ==
    /\ pc = "s1_wait"
    /\ QmpCanReturn
    /\ LET d == QmpResult(models, calls)
           s1 == Successes(d)
       IN /\ result' = d
          /\ stage1_results' = s1
          /\ events' = IF endpoint = "stream"
                       THEN Append(events, Event("stage1_complete", <<s1>>, <<>>))
                       ELSE events
    /\ completion' = <<>>
    /\ pc' = IF endpoint = "stream" THEN "s2_start" ELSE "s2_issue"
    /\ UNCHANGED <<endpoint, conv, is_first_message, title_task, chairman,
                   stage2_results, label_to_model, stage3_result, response,
                   models, calls, fan_stage>>
    /\ UNCHANGED libVars

\* Line 229 preceded by a join of the title task.
EmitStage2StartAfterTitle ==
    /\ pc = "s2_start"
    /\ title_task # "pending"
    /\ events' = Append(events, Event("stage2_start", <<>>, <<>>))
    /\ pc' = "s2_issue"
    /\ UNCHANGED <<endpoint, conv, is_first_message, title_task, chairman,
                   stage1_results, stage2_results, label_to_model,
                   stage3_result, response>>
    /\ UNCHANGED fanVars
    /\ UNCHANGED libVars

\* Line 229.
EmitStage2Start ==
    /\ pc = "s2_start"
    /\ events' = Append(events, Event("stage2_start", <<>>, <<>>))
    /\ pc' = "s2_issue"
    /\ UNCHANGED <<endpoint, conv, is_first_message, title_task, chairman,
                   stage1_results, stage2_results, label_to_model,
                   stage3_result, response>>
    /\ UNCHANGED fanVars
    /\ UNCHANGED libVars

\* stage2_collect_rankings fans out over the judges.
Stage2Issue ==
    /\ pc = "s2_issue"
    /\ QmpIssue(Judges(stage1_results), 2)
    /\ pc' = "s2_wait"
    /\ UNCHANGED endpoint
    /\ UNCHANGED runVars
    /\ UNCHANGED libVars

\* The stage-2 fan-out returns; event_generator computes the aggregate
\* rankings and yields stage2_complete with them and the label mapping as
\* metadata (lines 231-235).
Stage2Complete ==
    /\ pc = "s2_wait"
    /\ QmpCanReturn
    /\ LET d == QmpResult(models, calls)
           l2m == LabelToModel(stage1_results)
           s2 == Rankings(d, DOMAIN l2m)
           aggregate_rankings == CalculateAggregateRankings(s2, l2m)
       IN /\ result' = d
          /\ stage2_results' = s2
          /\ label_to_model' = l2m
          /\ events' = IF endpoint = "stream"
                       THEN Append(events,
                                   Event("stage2_complete", <<s2>>,
                                         <<[label_to_model |-> l2m,
                                            aggregate_rankings |->
                                                aggregate_rankings]>>))
                       ELSE events
    /\ completion' = <<>>
    /\ pc' = IF endpoint = "stream" THEN "s3_start" ELSE "s3_issue"
    /\ UNCHANGED <<endpoint, conv, is_first_message, title_task, chairman,
                   stage1_results, stage3_result, response, models, calls,
                   fan_stage>>
    /\ UNCHANGED libVars

\* Line 238.
EmitStage3Start ==
    /\ pc = "s3_start"
    /\ events' = Append(events, Event("stage3_start", <<>>, <<>>))
    /\ pc' = "s3_issue"
    /\ UNCHANGED <<endpoint, conv, is_first_message, title_task, chairman,
                   stage1_results, stage2_results, label_to_model,
                   stage3_result, response>>
    /\ UNCHANGED fanVars
    /\ UNCHANGED libVars

\* stage3_synthesize_final calls the chairman once.
Stage3Issue ==
    /\ pc = "s3_issue"
    /\ chairman' = Pending
    /\ pc' = "s3_wait"
    /\ UNCHANGED <<endpoint, conv, is_first_message, title_task,
                   stage1_results, stage2_results, label_to_model,
                   stage3_result, events, response>>
    /\ UNCHANGED fanVars
    /\ UNCHANGED libVars

\* The chairman's query_model call ends.
ChairmanResolve(cause) ==
    /\ chairman = Pending
    /\ chairman' = QueryModel(1, cause)
    /\ UNCHANGED <<endpoint, pc, conv, is_first_message, title_task,
                   stage1_results, stage2_results, label_to_model,
                   stage3_result, events, response>>
    /\ UNCHANGED fanVars
    /\ UNCHANGED libVars

\* stage3_synthesize_final: the chairman's answer as a ModelResponse; a
\* failed chairman call is a synthesis failure, raised to the caller.
Stage3Synthesis(c) ==
    IF c.kind = "resp"
    THEN [raises |-> FALSE,
          value |-> [model |-> ChairmanModel, response |-> c.content]]
    ELSE [raises |-> TRUE, value |-> NoStage3]

\* Line 246 taken as always false: the title task is never joined.
AfterStage3SkipTitle == "save"

\* Lines 245-252: `if title_task:` joins the title task before the save.
AfterStage3 ==
    IF endpoint = "stream" /\ title_task # "none" THEN "title_join" ELSE "save"

\* Lines 240-243 (and run_full_council): stage 3 ends; event_generator
\* yields stage3_complete, or the synthesis failure leaves the try body.
Stage3Complete ==
    /\ pc = "s3_wait"
    /\ chairman # Pending
    /\ IF ~Stage3Synthesis(chairman).raises
       THEN LET s3 == Stage3Synthesis(chairman).value
            IN /\ stage3_result' = s3
               /\ events' = IF endpoint = "stream"
                            THEN Append(events,
                                        Event("stage3_complete", <<s3>>, <<>>))
                            ELSE events
               /\ pc' = AfterStage3
               /\ UNCHANGED response
       ELSE /\ Fail("SynthesisFailure")
            /\ UNCHANGED stage3_result
    /\ UNCHANGED <<endpoint, conv, is_first_message, title_task, chairman,
                   stage1_results, stage2_results, label_to_model>>
    /\ UNCHANGED fanVars
    /\ UNCHANGED libVars

\* Line 247 as `if title_task.done()`: a title still pending is skipped.
AwaitTitleNoWait ==
    /\ pc = "title_join"
    /\ IF title_task = "raised"
       THEN Fail("TitleFailure")
       ELSE /\ pc' = IF title_task = "done" THEN "update_title" ELSE "save"
            /\ UNCHANGED <<events, response>>
    /\ UNCHANGED <<endpoint, conv, is_first_message, title_task, chairman,
                   stage1_results, stage2_results, label_to_model,
                   stage3_result>>
    /\ UNCHANGED fanVars
    /\ UNCHANGED libVars

\* Line 247 with the exception of the title task swallowed: the run goes on
\* to save the assistant message under the old title.
AwaitTitleSwallow ==
    /\ pc = "title_join"
    /\ title_task # "pending"
    /\ pc' = IF title_task = "done" THEN "update_title" ELSE "save"
    /\ UNCHANGED <<endpoint, conv, is_first_message, title_task, chairman,
                   stage1_results, stage2_results, label_to_model,
                   stage3_result, events, response>>
    /\ UNCHANGED fanVars
    /\ UNCHANGED libVars

\* `title = await title_task` (line 247) and `title = await
\* generate_conversation_title(...)` (line 157): go on once the title call
\* has ended; its exception is raised here.
AwaitTitle ==
    /\ pc = "title_join"
    /\ title_task # "pending"
    /\ IF title_task = "done"
       THEN /\ pc' = "update_title"
            /\ UNCHANGED <<events, response>>
       ELSE Fail("TitleFailure")
    /\ UNCHANGED <<endpoint, conv, is_first_message, title_task, chairman,
                   stage1_results, stage2_results, label_to_model,
                   stage3_result>>
    /\ UNCHANGED fanVars
    /\ UNCHANGED libVars

\* storage.update_conversation_title (lines 158 and 248).
UpdateTitle(outcome) ==
    /\ pc = "update_title"
    /\ IF outcome = "ok"
       THEN /\ conv' = [conv EXCEPT !.title = GeneratedTitle]
            /\ pc' = IF endpoint = "stream" THEN "title_complete"
                     ELSE "s1_issue"
            /\ UNCHANGED <<events, response>>
       ELSE /\ Fail(outcome)
            /\ UNCHANGED conv
    /\ UNCHANGED <<endpoint, is_first_message, title_task, chairman,
                   stage1_results, stage2_results, label_to_model,
                   stage3_result>>
    /\ UNCHANGED fanVars
    /\ UNCHANGED libVars

\* Line 249.
EmitTitleComplete ==
    /\ pc = "title_complete"
    /\ events' = Append(events,
                        Event("title_complete", <<GeneratedTitle>>, <<>>))
    /\ pc' = "save"
    /\ UNCHANGED <<endpoint, conv, is_first_message, title_task, chairman,
                   stage1_results, stage2_results, label_to_model,
                   stage3_result, response>>
    /\ UNCHANGED fanVars
    /\ UNCHANGED libVars

\* Line 252 with the failure of the store logged and the run going on.
AddAssistantMessageBestEffort(outcome) ==
    /\ pc = "save"
    /\ conv' = IF outcome = "ok"
               THEN [conv EXCEPT !.messages =
                        Append(@, AssistantMessage(stage1_results,
                                                   stage2_results,
                                                   stage3_result))]
               ELSE conv
    /\ pc' = "finish"
    /\ UNCHANGED <<endpoint, is_first_message, title_task, chairman,
                   stage1_results, stage2_results, label_to_model,
                   stage3_result, events, response>>
    /\ UNCHANGED fanVars
    /\ UNCHANGED libVars

\* storage.add_assistant_message (lines 166 and 252).
AddAssistantMessage(outcome) ==
    /\ pc = "save"
    /\ IF outcome = "ok"
       THEN /\ conv' = [conv EXCEPT !.messages =
                           Append(@, AssistantMessage(stage1_results,
                                                      stage2_results,
                                                      stage3_result))]
            /\ pc' = "finish"
            /\ UNCHANGED <<events, response>>
       ELSE /\ Fail(outcome)
            /\ UNCHANGED conv
    /\ UNCHANGED <<endpoint, is_first_message, title_task, chairman,
                   stage1_results, stage2_results, label_to_model,
                   stage3_result>>
    /\ UNCHANGED fanVars
    /\ UNCHANGED libVars

\* Line 262: the completion event.
EmitComplete ==
    /\ pc = "finish"
    /\ endpoint = "stream"
    /\ events' = Append(events, Event("complete", <<>>, <<>>))
    /\ pc' = "done"
    /\ UNCHANGED <<endpoint, conv, is_first_message, title_task, chairman,
                   stage1_results, stage2_results, label_to_model,
                   stage3_result, response>>
    /\ UNCHANGED fanVars
    /\ UNCHANGED libVars

\* Lines 176-181: send_message returns the CouncilResults.
SyncReturn ==
    /\ pc = "finish"
    /\ endpoint = "sync"
    /\ response' = [status |-> 200,
                    body |-> <<[stage1 |-> stage1_results,
                                stage2 |-> stage2_results,
                                stage3 |-> stage3_result,
                                metadata |-> label_to_model]>>]
    /\ pc' = "done"
    /\ UNCHANGED <<endpoint, conv, is_first_message, title_task, chairman,
                   stage1_results, stage2_results, label_to_model,
                   stage3_result, events>>
    /\ UNCHANGED fanVars
    /\ UNCHANGED libVars

Init ==
    /\ endpoint \in {"stream", "sync", "get"}
    /\ pc = "check"
    /\ conv \in {NoConv, NewConversation, OldConversation}
    /\ is_first_message = FALSE
    /\ title_task = "none"
    /\ models = <<>>
    /\ calls = <<>>
    /\ completion = <<>>
    /\ fan_stage = 0
    /\ result = <<>>
    /\ chairman = NotIssued
    /\ stage1_results = <<>>
    /\ stage2_results = <<>>
    /\ label_to_model = <<>>
    /\ stage3_result = NoStage3
    /\ events = <<>>
    /\ response = NoResponse
    /\ files = <<>>
    /\ args = <<>>
    /\ ret = <<>>
    /\ NoLibrary

Next ==
    \/ CheckConversation
    \/ \E outcome \in StorageOutcomes : AddUserMessage(outcome)
    \/ SyncStartTitle
    \/ \E outcome \in {"done", "raised"} : TitleResolve(outcome)
    \/ EmitStage1Start
    \/ Stage1Issue
    \/ \E i \in 1..NumModels, cause \in Causes : Resolve(i, cause)
    \/ Stage1Complete
    \/ EmitStage2Start
    \/ Stage2Issue
    \/ Stage2Complete
    \/ EmitStage3Start
    \/ Stage3Issue
    \/ \E cause \in Causes : ChairmanResolve(cause)
    \/ Stage3Complete
    \/ AwaitTitle
    \/ \E outcome \in StorageOutcomes : UpdateTitle(outcome)
    \/ EmitTitleComplete
    \/ \E outcome \in StorageOutcomes : AddAssistantMessage(outcome)
    \/ EmitComplete
    \/ SyncReturn

Spec == Init /\ [][Next]_vars

\* ------------------------------------------- query_models_parallel alone
\* Every model list, repeated identifiers included (the parameter is a
\* List[str]).
AllLists == UNION {[1..n -> 1..NumFanIds] : n \in 0..MaxLen}

InitFan ==
    /\ endpoint = "fanout"
    /\ pc = "fan_idle"
    /\ conv = NoConv
    /\ is_first_message = FALSE
    /\ title_task = "none"
    /\ models = <<>>
    /\ calls = <<>>
    /\ completion = <<>>
    /\ fan_stage = 0
    /\ result = <<>>
    /\ chairman = NotIssued
    /\ stage1_results = <<>>
    /\ stage2_results = <<>>
    /\ label_to_model = <<>>
    /\ stage3_result = NoStage3
    /\ events = <<>>
    /\ response = NoResponse
    /\ files = <<>>
    /\ args = <<>>
    /\ ret = <<>>
    /\ NoLibrary

\* A caller invokes query_models_parallel(ms, messages).
FanCall(ms) ==
    /\ pc = "fan_idle"
    /\ QmpIssue(ms, 0)
    /\ pc' = "fan_wait"
    /\ UNCHANGED endpoint
    /\ UNCHANGED runVars
    /\ UNCHANGED libVars

\* gather resumes and the function returns its dict.
FanReturn ==
    /\ pc = "fan_wait"
    /\ QmpCanReturn
    /\ result' = QmpResult(models, calls)
    /\ pc' = "fan_done"
    /\ UNCHANGED <<endpoint, models, calls, completion, fan_stage>>
    /\ UNCHANGED runVars
    /\ UNCHANGED libVars

NextFan ==
    \/ \E ms \in AllLists : FanCall(ms)
    \/ \E i \in 1..MaxLen, cause \in Causes : Resolve(i, cause)
    \/ FanReturn

SpecFan == InitFan /\ [][NextFan]_vars

\* ------------------------------- the functions of council.py on their own
\* No request is being served.
NoRequest ==
    /\ conv = NoConv
    /\ is_first_message = FALSE
    /\ title_task = "none"
    /\ models = <<>>
    /\ calls = <<>>
    /\ completion = <<>>
    /\ fan_stage = 0
    /\ result = <<>>
    /\ chairman = NotIssued
    /\ stage1_results = <<>>
    /\ stage2_results = <<>>
    /\ label_to_model = <<>>
    /\ stage3_result = NoStage3
    /\ events = <<>>
    /\ response = NoResponse

\* The value of ret before the call has returned.
NotCalled == [raises |-> "none", value |-> <<>>]

\* A call that returned v.
Returned(v) == [raises |-> "none", value |-> v]

\* Every ranking text of at most MaxText tokens: labels 1..NumModels and
\* prose.
Texts == UNION {[1..n -> {Prose} \cup (1..NumModels)] : n \in 0..MaxText}

\* The valid label sets: the labels A.. of 0 to NumModels responses.
LabelSets == {1..n : n \in 0..NumModels}

InitParse ==
    /\ endpoint = "parse_ranking"
    /\ pc = "lib_idle"
    /\ NoRequest
    /\ files = <<>>
    /\ args \in [text : Texts, valid : LabelSets]
    /\ ret = NotCalled
    /\ NoLibrary

\* The ranking parser is applied to a text and a valid label set.
ParseCall ==
    /\ endpoint = "parse_ranking"
    /\ pc = "lib_idle"
    /\ ret' = Returned(ParseRanking(args.text, args.valid))
    /\ pc' = "lib_done"
    /\ UNCHANGED <<endpoint, files, args>>
    /\ UNCHANGED <<clock, netVars, _title_cache, tasks>>
    /\ UNCHANGED runVars
    /\ UNCHANGED fanVars

NextParse == ParseCall

SpecParse == InitParse /\ [][NextParse]_vars

\* Every parsed ranking over the labels 1..NumLabels: no label twice.
ParsedRankings ==
    {r \in UNION {[1..n -> 1..NumLabels] : n \in 0..NumLabels} : Injective(r)}

\* The stage-2 results of judges 1..k with the given parsed rankings.
ModelRankings(rs) ==
    [k \in 1..Len(rs) |->
        [model |-> k, ranking |-> rs[k], parsed_ranking |-> rs[k]]]

\* The label mapping: label j is the j-th model from the end, so that the
\* order of the labels is not the order of the model identifiers.
ReverseMap == [l \in 1..NumLabels |-> NumLabels + 1 - l]

InitAggregate ==
    /\ endpoint = "aggregate"
    /\ pc = "lib_idle"
    /\ NoRequest
    /\ files = <<>>
    /\ args \in [stage2 : {ModelRankings(rs) :
                              rs \in UNION {[1..k -> ParsedRankings] :
                                               k \in 0..MaxJudges}},
                 label_to_model : {ReverseMap}]
    /\ ret = NotCalled
    /\ NoLibrary

\* calculate_aggregate_rankings is applied to the rankings and the mapping.
AggregateCall ==
    /\ endpoint = "aggregate"
    /\ pc = "lib_idle"
    /\ ret' = Returned(CalculateAggregateRankings(args.stage2,
                                                  args.label_to_model))
    /\ pc' = "lib_done"
    /\ UNCHANGED <<endpoint, files, args>>
    /\ UNCHANGED <<clock, netVars, _title_cache, tasks>>
    /\ UNCHANGED runVars
    /\ UNCHANGED fanVars

NextAggregate == AggregateCall

SpecAggregate == InitAggregate /\ [][NextAggregate]_vars

\* ------------------------------------------------- storage.py on its own
\* A conversation id handed to storage.py: a string, given by its
\* characters, or a value that is not a string.
Str(chars) == [is_str |-> TRUE, chars |-> chars]
NotAString == [is_str |-> FALSE, chars |-> <<"7">>]

\* The ids the functions are called with: two well-formed ones, the empty
\* string, a path, a lone newline, an id ending in a newline, and a value
\* that is not a string.
TestIds ==
    {Str(<<"a">>), Str(<<"Z", "7", "-", "_">>), Str(<<>>),
     Str(<<".", ".", "/", "a">>), Str(<<"\n">>), Str(<<"a", "\n">>),
     NotAString}

\* The class [a-zA-Z0-9_-], by one letter of each case, a digit, the
\* hyphen and the underscore.
IdChars == {"a", "Z", "7", "-", "_"}

\* re.match(r'^[a-zA-Z0-9_-]+$', s): one or more characters of the class up
\* to the end of the string -- `$` also matches just before a newline that
\* ends the string.
MatchesIdPattern(chars) ==
    LET n == Len(chars)
        body == IF n > 0 /\ chars[n] = "\n" THEN SubSeq(chars, 1, n - 1)
                ELSE chars
    IN /\ body # <<>>
       /\ \A i \in 1..Len(body) : body[i] \in IdChars

\* validate_conversation_id (lines 25-31).
validate_conversation_id(id) ==
    /\ id.chars # <<>>
    /\ id.is_str
    /\ MatchesIdPattern(id.chars)

\* What a path of DATA_DIR holds: nothing, a file that cannot be read or
\* parsed, or the JSON of a conversation.
NoData == [id |-> Str(<<>>), created_at |-> <<>>, title |-> "",
           messages |-> <<>>]
Missing == [state |-> "missing", conv |-> NoData]
Unreadable == [state |-> "unreadable", conv |-> NoData]
JsonFile(c) == [state |-> "json", conv |-> c]

\* The digits, in the order of their character codes.
Digits == <<"0", "1", "2", "3", "4", "5", "6", "7", "8", "9">>

\* The character code order of the characters of a timestamp: "." comes
\* before every digit.
Ord(ch) == IF ch = "." THEN 0 ELSE CHOOSE i \in 1..Len(Digits) : Digits[i] = ch

\* datetime.isoformat() of the clock reading t (line 51): the seconds, and
\* the fraction of a second only when it is not zero.  A reading counts
\* the ticks of the clock, TicksPerSecond of them to the second.
isoformat(t) ==
    LET second == t \div TicksPerSecond
        fraction == t % TicksPerSecond
    IN IF fraction = 0 THEN <<Digits[second + 1]>>
       ELSE <<Digits[second + 1], ".", Digits[fraction + 1]>>

\* The order of Python strings, a < b: at the first place they differ a
\* has ended or holds the smaller character.
StrLess(a, b) ==
    \E k \in 1..Len(b) :
        /\ k <= Len(a) + 1
        /\ \A j \in 1..(k - 1) : a[j] = b[j]
        /\ (k = Len(a) + 1 \/ Ord(a[k]) < Ord(b[k]))

\* The conversation create_conversation builds (lines 49-54) when the
\* clock reads now.
CreatedConversation(id, now) ==
    [id |-> id, created_at |-> isoformat(now), title |-> "New Conversation",
     messages |-> <<>>]

\* A call that raised the exception exc.
Raises(exc) == [raises |-> exc, value |-> <<>>]

\* get_conversation reporting an invalid id like create_conversation does.
LoadConversationStrict(fs, id) ==
    IF ~validate_conversation_id(id) THEN Raises("ValueError")
    ELSE IF fs[id].state = "json" THEN Returned(<<fs[id].conv>>)
    ELSE Returned(<<>>)

\* get_conversation (lines 68-92): the stored conversation, or None -- the
\* empty sequence -- for an invalid id, a missing file and a file that
\* cannot be read or parsed.
LoadConversation(fs, id) ==
    IF ~validate_conversation_id(id) THEN Returned(<<>>)
    ELSE IF fs[id].state = "json" THEN Returned(<<fs[id].conv>>)
    ELSE Returned(<<>>)

\* save_conversation (lines 95-113) of conversation c when the write ends
\* as io: the outcome and the files left.
SaveConversation(fs, c, io) ==
    IF ~validate_conversation_id(c.id)
    THEN [ret |-> Raises("ValueError"), files |-> fs]
    ELSE IF io = "OSError"
    THEN [ret |-> Raises("OSError"), files |-> fs]
    ELSE [ret |-> Returned(<<>>), files |-> [fs EXCEPT ![c.id] = JsonFile(c)]]

IoOutcomes == {"ok", "OSError"}

\* The message contents the functions are called with.
Contents == {"", "hi"}

\* The directory is empty, or holds one file that is not a conversation.
InitStore ==
    /\ endpoint = "storage"
    /\ pc = "lib_idle"
    /\ NoRequest
    /\ files \in {[id \in TestIds |-> Missing],
                  [id \in TestIds |->
                      IF id = Str(<<"a">>) THEN Unreadable ELSE Missing]}
    /\ args = [op |-> "none", id |-> Str(<<>>)]
    /\ ret = NotCalled
    /\ NoLibrary

\* create_conversation (lines 34-65).
create_conversation(id, io) ==
    /\ endpoint = "storage"
    /\ args' = [op |-> "create_conversation", id |-> id]
    /\ IF ~validate_conversation_id(id)
       THEN ret' = Raises("ValueError") /\ UNCHANGED files
       ELSE IF io = "OSError"
       THEN ret' = Raises("OSError") /\ UNCHANGED files
       ELSE /\ files' = [files EXCEPT
                            ![id] = JsonFile(CreatedConversation(id, clock))]
            /\ ret' = Returned(<<CreatedConversation(id, clock)>>)
    /\ pc' = "lib_done"
    /\ UNCHANGED endpoint
    /\ UNCHANGED <<clock, netVars, _title_cache, tasks>>
    /\ UNCHANGED runVars
    /\ UNCHANGED fanVars

\* get_conversation (lines 68-92).
get_conversation(id) ==
    /\ endpoint = "storage"
    /\ args' = [op |-> "get_conversation", id |-> id]
    /\ ret' = LoadConversation(files, id)
    /\ pc' = "lib_done"
    /\ UNCHANGED <<endpoint, files>>
    /\ UNCHANGED <<clock, netVars, _title_cache, tasks>>
    /\ UNCHANGED runVars
    /\ UNCHANGED fanVars

\* add_user_message accepting any content, the empty one included.
add_user_message_unchecked(id, content, io) ==
    /\ endpoint = "storage"
    /\ Len(files[id].conv.messages) < MaxMessages
    /\ args' = [op |-> "add_user_message", id |-> id]
    /\ LET loaded == LoadConversation(files, id).value
       IN IF loaded = <<>>
          THEN ret' = Raises("ValueError") /\ UNCHANGED files
          ELSE LET c == [loaded[1] EXCEPT
                            !.messages = Append(@, [role |-> "user",
                                                    content |-> content])]
                   saved == SaveConversation(files, c, io)
               IN ret' = saved.ret /\ files' = saved.files
    /\ pc' = "lib_done"
    /\ UNCHANGED endpoint
    /\ UNCHANGED <<clock, netVars, _title_cache, tasks>>
    /\ UNCHANGED runVars
    /\ UNCHANGED fanVars

\* add_user_message (lines 154-174).
add_user_message(id, content, io) ==
    /\ endpoint = "storage"
    /\ Len(files[id].conv.messages) < MaxMessages
    /\ args' = [op |-> "add_user_message", id |-> id]
    /\ LET loaded == LoadConversation(files, id).value
       IN IF content = "" \/ loaded = <<>>
          THEN ret' = Raises("ValueError") /\ UNCHANGED files
          ELSE LET c == [loaded[1] EXCEPT
                            !.messages = Append(@, [role |-> "user",
                                                    content |-> content])]
                   saved == SaveConversation(files, c, io)
               IN ret' = saved.ret /\ files' = saved.files
    /\ pc' = "lib_done"
    /\ UNCHANGED endpoint
    /\ UNCHANGED <<clock, netVars, _title_cache, tasks>>
    /\ UNCHANGED runVars
    /\ UNCHANGED fanVars

\* str.strip() on the titles the functions are called with.
Strip(title) == IF title = " T " THEN "T" ELSE title

Titles == {"", " T "}

\* update_conversation_title (lines 206-222).
update_conversation_title(id, title, io) ==
    /\ endpoint = "storage"
    /\ args' = [op |-> "update_conversation_title", id |-> id]
    /\ LET loaded == LoadConversation(files, id).value
       IN IF title = "" \/ loaded = <<>>
          THEN ret' = Raises("ValueError") /\ UNCHANGED files
          ELSE LET c == [loaded[1] EXCEPT !.title = Strip(title)]
                   saved == SaveConversation(files, c, io)
               IN ret' = saved.ret /\ files' = saved.files
    /\ pc' = "lib_done"
    /\ UNCHANGED endpoint
    /\ UNCHANGED <<clock, netVars, _title_cache, tasks>>
    /\ UNCHANGED runVars
    /\ UNCHANGED fanVars

NextStore ==
    \/ \E id \in TestIds, io \in IoOutcomes : create_conversation(id, io)
    \/ \E id \in TestIds : get_conversation(id)
    \/ \E id \in TestIds, content \in Contents, io \in IoOutcomes :
          add_user_message(id, content, io)
    \/ \E id \in TestIds, title \in Titles, io \in IoOutcomes :
          update_conversation_title(id, title, io)

SpecStore == InitStore /\ [][NextStore]_vars

\* ------------------------------------------------- listing the conversations
\* The ids whose files the listing is exercised with.
ListIds == {id \in TestIds : validate_conversation_id(id)}

\* The metadata entry list_conversations builds from a file (lines 136-141).
Metadata(c) ==
    [id |-> c.id, created_at |-> c.created_at, title |-> c.title,
     message_count |-> Len(c.messages)]

\* The sort without reverse=True: x goes behind every element whose key is
\* not larger.
InsertOldestFirst(sorted, x) ==
    LET ahead == {i \in 1..Len(sorted) :
                    ~StrLess(x.created_at, sorted[i].created_at)}
        k == Cardinality(ahead)
    IN SubSeq(sorted, 1, k) \o <<x>> \o SubSeq(sorted, k + 1, Len(sorted))

\* list.sort(key=created_at, reverse=True) (line 149), one element at a
\* time: x goes behind every element whose key is not smaller, so that
\* elements with equal keys keep the order they had.
InsertNewestFirst(sorted, x) ==
    LET ahead == {i \in 1..Len(sorted) :
                    ~StrLess(sorted[i].created_at, x.created_at)}
        k == Cardinality(ahead)
    IN SubSeq(sorted, 1, k) \o <<x>> \o SubSeq(sorted, k + 1, Len(sorted))

RECURSIVE SortNewestFirst(_)
SortNewestFirst(list) ==
    IF list = <<>> THEN <<>>
    ELSE InsertNewestFirst(SortNewestFirst(SubSeq(list, 1, Len(list) - 1)),
                           list[Len(list)])

\* The entries read from the files of a directory listing (lines 127-144),
\* a file that cannot be read or parsed being skipped.
RECURSIVE ReadEntries(_, _)
ReadEntries(fs, listing) ==
    IF listing = <<>> THEN <<>>
    ELSE LET f == fs[Head(listing)]
         IN (IF f.state = "json" THEN <<Metadata(f.conv)>> ELSE <<>>)
            \o ReadEntries(fs, Tail(listing))

\* What list_conversations returns (lines 116-151) when os.listdir names
\* the files in the order of listing.
ListConversations(fs, listing) == SortNewestFirst(ReadEntries(fs, listing))

\* The orders in which os.listdir can name the files of fs.
Listings(fs) ==
    LET present == {id \in DOMAIN fs : fs[id].state # "missing"}
    IN {l \in [1..Cardinality(present) -> present] :
           \A i, j \in DOMAIN l : l[i] = l[j] => i = j}

\* list_conversations (lines 116-151).
list_conversations(listing) ==
    /\ endpoint = "storage"
    /\ args' = [op |-> "list_conversations", id |-> Str(<<>>)]
    /\ ret' = Returned(ListConversations(files, listing))
    /\ pc' = "lib_done"
    /\ UNCHANGED <<endpoint, files>>
    /\ UNCHANGED <<clock, netVars, _title_cache, tasks>>
    /\ UNCHANGED runVars
    /\ UNCHANGED fanVars

\* Time passes: the next reading of the clock is later.
Tick ==
    /\ endpoint = "storage"
    /\ clock < MaxClock
    /\ clock' = clock + 1
    /\ UNCHANGED <<endpoint, pc, files, args, ret>>
    /\ UNCHANGED <<netVars, _title_cache, tasks>>
    /\ UNCHANGED runVars
    /\ UNCHANGED fanVars

NextList ==
    \/ Tick
    \/ \E id \in ListIds : create_conversation(id, "ok")
    \/ \E id \in ListIds : add_user_message(id, "hi", "ok")
    \/ \E listing \in Listings(files) : list_conversations(listing)

SpecList == InitStore /\ [][NextList]_vars

\* ------------------------------------------- the HTTP clients of openrouter.py
\* A coroutine of openrouter.py: a caller of get_http_client, a
\* close_http_client, or a query_model (called directly, or gathered by
\* query_models_parallel).  shared is the client get_http_client gave it,
\* client the one it posts with or closes.
ClientTask(kind, via, timeout) ==
    [kind |-> kind, via |-> via, timeout |-> timeout, pc |-> "new",
     shared |-> NoClient, client |-> NoClient, exit |-> "none"]

\* The global client after get_http_client (lines 20-30), which has no
\* await: the existing one, or a new one, numbered after the clients made
\* so far.
SharedClient(global, made) ==
    IF global = NoClient THEN Len(made) + 1 ELSE global

\* The clients made so far after get_http_client.
AfterGet(global, made) ==
    IF SharedClient(global, made) > Len(made)
    THEN Append(made, "open") ELSE made

\* A coroutine is called: it runs when the event loop schedules it.
CallTask(kind, via, timeout) ==
    /\ endpoint = "clients"
    /\ Len(tasks) < MaxTasks
    /\ tasks' = Append(tasks, ClientTask(kind, via, timeout))
    /\ UNCHANGED <<endpoint, pc, files, args, ret, clock, netVars,
                   _title_cache>>
    /\ UNCHANGED runVars
    /\ UNCHANGED fanVars

\* query_models_parallel (lines 137-142) gathers n query_model calls, none
\* with a timeout.
CallParallel(n) ==
    /\ endpoint = "clients"
    /\ Len(tasks) + n <= MaxTasks
    /\ tasks' = tasks \o [i \in 1..n |-> ClientTask("query", "parallel", FALSE)]
    /\ UNCHANGED <<endpoint, pc, files, args, ret, clock, netVars,
                   _title_cache>>
    /\ UNCHANGED runVars
    /\ UNCHANGED fanVars

\* `await get_http_client()` by a caller of its own (lines 20-30).
GetHttpClient(t) ==
    /\ tasks[t].kind = "get"
    /\ tasks[t].pc = "new"
    /\ _client' = SharedClient(_client, clients)
    /\ clients' = AfterGet(_client, clients)
    /\ tasks' = [tasks EXCEPT ![t].shared = SharedClient(_client, clients),
                              ![t].client = SharedClient(_client, clients),
                              ![t].pc = "done", ![t].exit = "returned"]
    /\ UNCHANGED <<endpoint, pc, files, args, ret, clock, _title_cache>>
    /\ UNCHANGED runVars
    /\ UNCHANGED fanVars

\* close_http_client up to its await (lines 35-37).
CloseStart(t) ==
    /\ tasks[t].kind = "close"
    /\ tasks[t].pc = "new"
    /\ tasks' = IF _client # NoClient
                THEN [tasks EXCEPT ![t].client = _client, ![t].pc = "aclose"]
                ELSE [tasks EXCEPT ![t].pc = "done", ![t].exit = "returned"]
    /\ UNCHANGED <<endpoint, pc, files, args, ret, clock, netVars,
                   _title_cache>>
    /\ UNCHANGED runVars
    /\ UNCHANGED fanVars

\* close_http_client after `await _client.aclose()` (lines 37-39).
CloseDone(t) ==
    /\ tasks[t].kind = "close"
    /\ tasks[t].pc = "aclose"
    /\ clients' = [clients EXCEPT ![tasks[t].client] = "closed"]
    /\ _client' = NoClient
    /\ tasks' = [tasks EXCEPT ![t].pc = "done", ![t].exit = "returned"]
    /\ UNCHANGED <<endpoint, pc, files, args, ret, clock, _title_cache>>
    /\ UNCHANGED runVars
    /\ UNCHANGED fanVars

\* query_model up to `await client.post` (lines 58-81): without an API key
\* it raises before it asks for a client; with a timeout it posts with a
\* client of its own, made after the shared one was fetched.
QueryStart(t, has_key) ==
    /\ tasks[t].kind = "query"
    /\ tasks[t].pc = "new"
    /\ IF ~has_key
       THEN /\ tasks' = [tasks EXCEPT ![t].pc = "done",
                                      ![t].exit = "OpenRouterError"]
            /\ UNCHANGED netVars
       ELSE LET shared == SharedClient(_client, clients)
                made == AfterGet(_client, clients)
            IN /\ _client' = shared
               /\ clients' = IF tasks[t].timeout
                             THEN Append(made, "open") ELSE made
               /\ tasks' = [tasks EXCEPT
                               ![t].shared = shared,
                               ![t].client = IF tasks[t].timeout
                                             THEN Len(made) + 1 ELSE shared,
                               ![t].pc = "post"]
    /\ UNCHANGED <<endpoint, pc, files, args, ret, clock, _title_cache>>
    /\ UNCHANGED runVars
    /\ UNCHANGED fanVars

\* How `await client.post` and the lines after it leave the try block
\* (lines 80-112): with the response, with None from one of the handlers,
\* or with the cancellation of the task.
QueryExits == {"returned", "None", "CancelledError"}

\* The finally block closing whatever client the call posted with.
QueryFinallyCloseAny(t, exit) ==
    /\ tasks[t].kind = "query"
    /\ tasks[t].pc = "post"
    /\ tasks' = [tasks EXCEPT ![t].exit = exit, ![t].pc = "aclose"]
    /\ UNCHANGED <<endpoint, pc, files, args, ret, clock, netVars,
                   _title_cache>>
    /\ UNCHANGED runVars
    /\ UNCHANGED fanVars

\* query_model from the end of the post to the finally block (lines
\* 80-116): a call with a timeout goes on to close its client.
QueryFinally(t, exit) ==
    /\ tasks[t].kind = "query"
    /\ tasks[t].pc = "post"
    /\ tasks' = [tasks EXCEPT
                    ![t].exit = exit,
                    ![t].pc = IF tasks[t].timeout THEN "aclose" ELSE "done"]
    /\ UNCHANGED <<endpoint, pc, files, args, ret, clock, netVars,
                   _title_cache>>
    /\ UNCHANGED runVars
    /\ UNCHANGED fanVars

\* `await client.aclose()` of the finally block has ended (line 116).
QueryClosed(t) ==
    /\ tasks[t].kind = "query"
    /\ tasks[t].pc = "aclose"
    /\ clients' = [clients EXCEPT ![tasks[t].client] = "closed"]
    /\ tasks' = [tasks EXCEPT ![t].pc = "done"]
    /\ UNCHANGED <<endpoint, pc, files, args, ret, clock, _client,
                   _title_cache>>
    /\ UNCHANGED runVars
    /\ UNCHANGED fanVars

InitClients ==
    /\ endpoint = "clients"
    /\ pc = "lib_idle"
    /\ NoRequest
    /\ files = <<>>
    /\ args = <<>>
    /\ ret = NotCalled
    /\ NoLibrary

NextClients ==
    \/ CallTask("get", "direct", FALSE)
    \/ CallTask("close", "direct", FALSE)
    \/ \E timeout \in BOOLEAN : CallTask("query", "direct", timeout)
    \/ \E n \in 1..MaxTasks : CallParallel(n)
    \/ \E t \in DOMAIN tasks : GetHttpClient(t)
    \/ \E t \in DOMAIN tasks : CloseStart(t)
    \/ \E t \in DOMAIN tasks : CloseDone(t)
    \/ \E t \in DOMAIN tasks, has_key \in BOOLEAN : QueryStart(t, has_key)
    \/ \E t \in DOMAIN tasks, exit \in QueryExits : QueryFinally(t, exit)
    \/ \E t \in DOMAIN tasks : QueryClosed(t)

SpecClients == InitClients /\ [][NextClients]_vars

\* ------------------------------------- concurrent writers of one conversation
\* The conversation the concurrent calls of storage.py write to.
WriteId == Str(<<"a">>)

WriteOps ==
    {"add_user_message", "add_assistant_message", "update_conversation_title"}

\* A call of add_user_message, add_assistant_message or
\* update_conversation_title with its argument (the content, the stage-3
\* response, the title); loaded is the conversation get_conversation gave it.
Writer(op, arg) ==
    [op |-> op, arg |-> arg, pc |-> "new", loaded |-> NoData,
     raises |-> "none", seq |-> 0]

\* The message a writer appends (lines 167-170 and 194-199).
MessageOf(w) ==
    IF w.op = "add_user_message"
    THEN [role |-> "user", content |-> w.arg]
    ELSE [role |-> "assistant", stage1 |-> <<>>, stage2 |-> <<>>,
          stage3 |-> w.arg]

\* The conversation as the writer changes it in memory (lines 167-170,
\* 194-199 and 221).
Modified(w) ==
    IF w.op = "update_conversation_title"
    THEN [w.loaded EXCEPT !.title = Strip(w.arg)]
    ELSE [w.loaded EXCEPT !.messages = Append(@, MessageOf(w))]

\* `conversation = await get_conversation(conversation_id)` (lines 163,
\* 190, 217): the file as it is when it is read; None, and with it
\* ValueError, when it cannot be parsed.
WriteLoad(t) ==
    /\ endpoint = "writes"
    /\ tasks[t].pc = "new"
    /\ LET loaded == LoadConversation(files, WriteId).value
       IN tasks' = IF loaded = <<>>
                   THEN [tasks EXCEPT ![t].pc = "done",
                                      ![t].raises = "ValueError"]
                   ELSE [tasks EXCEPT ![t].pc = "loaded",
                                      ![t].loaded = loaded[1]]
    /\ UNCHANGED <<endpoint, pc, files, args, ret, clock, netVars,
                   _title_cache>>
    /\ UNCHANGED runVars
    /\ UNCHANGED fanVars

\* save_conversation up to `aiofiles.open(path, 'w')` (line 109): opening
\* the file for writing empties it.
WriteOpen(t) ==
    /\ endpoint = "writes"
    /\ tasks[t].pc = "loaded"
    /\ files' = [files EXCEPT ![WriteId] = Unreadable]
    /\ tasks' = [tasks EXCEPT ![t].pc = "opened"]
    /\ UNCHANGED <<endpoint, pc, args, ret, clock, netVars, _title_cache>>
    /\ UNCHANGED runVars
    /\ UNCHANGED fanVars

\* The number of writes that have reached the file.
WritesDone ==
    Cardinality({t \in DOMAIN tasks : tasks[t].seq > 0})

\* save_conversation from `await f.write(...)` to the end (lines 110-113):
\* the file holds the conversation of this writer.
WriteFlush(t) ==
    /\ endpoint = "writes"
    /\ tasks[t].pc = "opened"
    /\ files' = [files EXCEPT ![WriteId] = JsonFile(Modified(tasks[t]))]
    /\ tasks' = [tasks EXCEPT ![t].pc = "done", ![t].seq = WritesDone + 1]
    /\ UNCHANGED <<endpoint, pc, args, ret, clock, netVars, _title_cache>>
    /\ UNCHANGED runVars
    /\ UNCHANGED fanVars

\* NumWriters calls are made on one stored conversation, each with an
\* argument of its own.
InitWrites ==
    /\ endpoint = "writes"
    /\ pc = "lib_idle"
    /\ NoRequest
    /\ files = [id \in {WriteId} |-> JsonFile(CreatedConversation(id, 0))]
    /\ args = <<>>
    /\ ret = NotCalled
    /\ clock = 0
    /\ _client = NoClient
    /\ clients = <<>>
    /\ _title_cache = <<>>
    /\ \E ops \in [1..NumWriters -> WriteOps] :
          tasks = [t \in 1..NumWriters |-> Writer(ops[t], Digits[t + 1])]

NextWrites ==
    \/ \E t \in DOMAIN tasks : WriteLoad(t)
    \/ \E t \in DOMAIN tasks : WriteOpen(t)
    \/ \E t \in DOMAIN tasks : WriteFlush(t)

SpecWrites == InitWrites /\ [][NextWrites]_vars

\* ------------------------------------ concurrent requests on one conversation
\* A message request on the conversation, served by send_message ("sync")
\* or by send_message_stream ("stream"): where it stands, the
\* is_first_message it computed, whether it had a title generated and
\* whether it stored one.
Request(kind) ==
    [endpoint |-> kind, pc |-> "check", is_first_message |-> FALSE,
     generated |-> FALSE, stored |-> FALSE]

\* The user message of request r, and the title generated from it.
RequestMessage(r) == [role |-> "user", content |-> Digits[r + 1]]
RequestTitle(r) == Digits[r + 1]

\* Lines 145-150 and 203-208: the conversation is loaded and
\* is_first_message computed from the messages it holds at that moment.
RequestCheck(r) ==
    /\ endpoint = "requests"
    /\ tasks[r].pc = "check"
    /\ tasks' = [tasks EXCEPT
                    ![r].is_first_message = (Len(conv.messages) = 0),
                    ![r].pc = "add_user"]
    /\ UNCHANGED <<endpoint, pc, files, args, ret, clock, netVars,
                   _title_cache>>
    /\ UNCHANGED runVars
    /\ UNCHANGED fanVars

\* Lines 153-156 and 213-220: the user message is stored; the stream then
\* creates the title task of a first message, send_message goes on to
\* generate the title in line.
RequestAddUser(r) ==
    /\ endpoint = "requests"
    /\ tasks[r].pc = "add_user"
    /\ conv' = [conv EXCEPT !.messages = Append(@, RequestMessage(r))]
    /\ tasks' = [tasks EXCEPT
                    ![r].generated =
                        tasks[r].endpoint = "stream"
                            /\ tasks[r].is_first_message,
                    ![r].pc = IF tasks[r].endpoint = "sync"
                                    /\ tasks[r].is_first_message
                              THEN "title" ELSE "stages"]
    /\ UNCHANGED <<endpoint, pc, is_first_message, title_task, chairman,
                   stage1_results, stage2_results, label_to_model,
                   stage3_result, events, response>>
    /\ UNCHANGED <<files, args, ret, clock, netVars, _title_cache>>
    /\ UNCHANGED fanVars

\* Line 157: send_message has the title generated.
RequestTitleSync(r) ==
    /\ endpoint = "requests"
    /\ tasks[r].pc = "title"
    /\ tasks' = [tasks EXCEPT ![r].generated = TRUE,
                              ![r].pc = "update_title"]
    /\ UNCHANGED <<endpoint, pc, files, args, ret, clock, netVars,
                   _title_cache>>
    /\ UNCHANGED runVars
    /\ UNCHANGED fanVars

\* Lines 158 and 248: the title is stored.
RequestUpdateTitle(r) ==
    /\ endpoint = "requests"
    /\ tasks[r].pc = "update_title"
    /\ conv' = [conv EXCEPT !.title = RequestTitle(r)]
    /\ tasks' = [tasks EXCEPT
                    ![r].stored = TRUE,
                    ![r].pc = IF tasks[r].endpoint = "sync"
                              THEN "stages" ELSE "save"]
    /\ UNCHANGED <<endpoint, pc, is_first_message, title_task, chairman,
                   stage1_results, stage2_results, label_to_model,
                   stage3_result, events, response>>
    /\ UNCHANGED <<files, args, ret, clock, netVars, _title_cache>>
    /\ UNCHANGED fanVars

\* Lines 161-163 and 222-247: the three stages run; the stream then awaits
\* the title task if it created one.
RequestStages(r) ==
    /\ endpoint = "requests"
    /\ tasks[r].pc = "stages"
    /\ tasks' = [tasks EXCEPT
                    ![r].pc = IF tasks[r].endpoint = "stream"
                                    /\ tasks[r].is_first_message
                              THEN "update_title" ELSE "save"]
    /\ UNCHANGED <<endpoint, pc, files, args, ret, clock, netVars,
                   _title_cache>>
    /\ UNCHANGED runVars
    /\ UNCHANGED fanVars

\* Lines 166-171 and 252-257: the assistant message is stored.
RequestSave(r) ==
    /\ endpoint = "requests"
    /\ tasks[r].pc = "save"
    /\ conv' = [conv EXCEPT
                   !.messages = Append(@, AssistantMessage(<<>>, <<>>,
                                                           NoStage3))]
    /\ tasks' = [tasks EXCEPT ![r].pc = "done"]
    /\ UNCHANGED <<endpoint, pc, is_first_message, title_task, chairman,
                   stage1_results, stage2_results, label_to_model,
                   stage3_result, events, response>>
    /\ UNCHANGED <<files, args, ret, clock, netVars, _title_cache>>
    /\ UNCHANGED fanVars

\* NumRequests message requests arrive for one conversation, new or with
\* earlier messages.
InitRequests ==
    /\ endpoint = "requests"
    /\ pc = "lib_idle"
    /\ conv \in {NewConversation, OldConversation}
    /\ is_first_message = FALSE
    /\ title_task = "none"
    /\ models = <<>>
    /\ calls = <<>>
    /\ completion = <<>>
    /\ fan_stage = 0
    /\ result = <<>>
    /\ chairman = NotIssued
    /\ stage1_results = <<>>
    /\ stage2_results = <<>>
    /\ label_to_model = <<>>
    /\ stage3_result = NoStage3
    /\ events = <<>>
    /\ response = NoResponse
    /\ files = <<>>
    /\ args = <<>>
    /\ ret = NotCalled
    /\ clock = 0
    /\ _client = NoClient
    /\ clients = <<>>
    /\ _title_cache = <<>>
    /\ tasks \in [1..NumRequests -> {Request("sync"), Request("stream")}]

NextRequests ==
    \/ \E r \in DOMAIN tasks : RequestCheck(r)
    \/ \E r \in DOMAIN tasks : RequestAddUser(r)
    \/ \E r \in DOMAIN tasks : RequestTitleSync(r)
    \/ \E r \in DOMAIN tasks : RequestUpdateTitle(r)
    \/ \E r \in DOMAIN tasks : RequestStages(r)
    \/ \E r \in DOMAIN tasks : RequestSave(r)

SpecRequests == InitRequests /\ [][NextRequests]_vars

\* ------------------------------------------------ the title cache on its own
\* The queries generate_title_cached is called with: strings of one letter
\* up to one character more than a title keeps, and two more of another
\* letter.
Queries ==
    {[i \in 1..n |-> "a"] : n \in 0..(TitleChars + 1)}
        \cup {[i \in 1..n |-> "b"] : n \in 1..2}

\* hashlib.md5(query.encode()).hexdigest()[:16] (line 172): the key keeps
\* 64 bits of the hash, so that distinct queries can have one key.  Here
\* the queries "bb" and "a" do, and all other keys differ.
CacheKey(query) ==
    IF query = <<"b", "b">> THEN <<"a">> ELSE query

\* Line 180: the first TitleChars characters and "..." for a longer query,
\* the query itself otherwise.
TitleOf(query) ==
    IF Len(query) > TitleChars
    THEN SubSeq(query, 1, TitleChars) \o <<".", ".", ".">>
    ELSE query

\* The place of a key in the cache, 0 if it is not cached.
CachedAt(cache, key) ==
    IF \E i \in DOMAIN cache : cache[i].key = key
    THEN CHOOSE i \in DOMAIN cache : cache[i].key = key
    ELSE 0

\* generate_title_cached without the limit on the size of the cache.
generate_title_cached_unlimited(query) ==
    /\ endpoint = "cache"
    /\ Len(args) < MaxCalls
    /\ args' = Append(args, query)
    /\ LET key == CacheKey(query)
           at == CachedAt(_title_cache, key)
       IN IF at > 0
          THEN /\ ret' = Returned(<<_title_cache[at].title>>)
               /\ UNCHANGED _title_cache
          ELSE /\ _title_cache' =
                     Append(_title_cache, [key |-> key, title |-> TitleOf(query)])
               /\ ret' = Returned(<<TitleOf(query)>>)
    /\ UNCHANGED <<endpoint, pc, files, clock, netVars, tasks>>
    /\ UNCHANGED runVars
    /\ UNCHANGED fanVars

\* generate_title_cached (lines 168-191).  The dict keeps its keys in the
\* order they were inserted; next(iter(_title_cache)) is the first of them.
generate_title_cached(query) ==
    /\ endpoint = "cache"
    /\ Len(args) < MaxCalls
    /\ args' = Append(args, query)
    /\ LET key == CacheKey(query)
           at == CachedAt(_title_cache, key)
           inserted ==
               Append(_title_cache, [key |-> key, title |-> TitleOf(query)])
       IN IF at > 0
          THEN /\ ret' = Returned(<<_title_cache[at].title>>)
               /\ UNCHANGED _title_cache
          ELSE /\ _title_cache' = IF Len(inserted) > CacheLimit
                                  THEN Tail(inserted) ELSE inserted
               /\ ret' = Returned(<<TitleOf(query)>>)
    /\ UNCHANGED <<endpoint, pc, files, clock, netVars, tasks>>
    /\ UNCHANGED runVars
    /\ UNCHANGED fanVars

\* The cache is empty; args lists the queries of the calls made so far.
InitCache ==
    /\ endpoint = "cache"
    /\ pc = "lib_idle"
    /\ NoRequest
    /\ files = <<>>
    /\ args = <<>>
    /\ ret = NotCalled
    /\ NoLibrary

NextCache == \E query \in Queries : generate_title_cached(query)

SpecCache == InitCache /\ [][NextCache]_vars

\* ================================================================ claims
StageOrder ==
    <<"stage1_start", "stage1_complete", "stage2_start", "stage2_complete",
      "stage3_start", "stage3_complete">>

\* Position of the first event of a type (0 when there is none).
IndexOf(type) ==
    IF Emitted(type)
    THEN CHOOSE i \in 1..Len(events) :
            /\ events[i].type = type
            /\ \A j \in 1..(i - 1) : events[j].type # type
    ELSE 0

\* C1: a streaming run that ended with `complete` emitted exactly
\* stage1_start, stage1_complete, stage2_start, stage2_complete, stage3_start,
\* stage3_complete, then title_complete iff a title task was started, then
\* complete, each once; every <stage>_complete carries that stage's result.
C1_StreamEventOrder ==
    (endpoint = "stream" /\ Emitted("complete")) =>
        /\ EventTypes = StageOrder
                        \o (IF title_task # "none"
                            THEN <<"title_complete">> ELSE <<>>)
                        \o <<"complete">>
        /\ events[2].data = <<stage1_results>>
        /\ events[4].data = <<stage2_results>>
        /\ events[6].data = <<stage3_result>>
        /\ stage3_result # NoStage3
        /\ pc = "done"

C1_Witness ==
    /\ endpoint = "stream"
    /\ Emitted("complete")
    /\ Emitted("title_complete")
    /\ Len(stage1_results) = 2

AnyPending == \E i \in 1..Len(calls) : calls[i] = Pending

\* C2: no pipelining.  A call of a fan-out is pending only while its stage
\* is waiting in query_models_parallel, so the function has returned only
\* when every call is resolved; and while a call of stage N is pending,
\* neither the start event of stage N+1 has been emitted nor a call of a
\* later stage issued.
C2_NoPipelining ==
    /\ AnyPending => pc \in {"s1_wait", "s2_wait"}
    /\ (AnyPending /\ fan_stage = 1) =>
            /\ pc = "s1_wait"
            /\ ~Emitted("stage1_complete")
            /\ ~Emitted("stage2_start")
            /\ chairman # Pending
    /\ (AnyPending /\ fan_stage = 2) =>
            /\ pc = "s2_wait"
            /\ ~Emitted("stage2_complete")
            /\ ~Emitted("stage3_start")
            /\ chairman # Pending
    /\ chairman = Pending => (pc = "s3_wait" /\ ~AnyPending)

\* Stage 2 is running over the two judges left by a stage 1 in which one
\* call failed, the second judge finishing first.
C2_Witness ==
    /\ pc = "s2_wait"
    /\ fan_stage = 2
    /\ completion = <<2>>
    /\ calls[1] = Pending
    /\ Len(stage1_results) = 2
    /\ endpoint = "stream"

\* What the caller is to see for a call that ended as r: the response when
\* the call succeeded, the failure marker otherwise.
Expected(r) == IF r.kind = "resp" THEN r ELSE None

ResultKeys == [j \in 1..Len(result) |-> result[j].model]

\* The entry of the returned dict for model m (m must be a key).
Entry(m) == result[CHOOSE j \in 1..Len(result) : result[j].model = m].value

\* The position of the last call made for model m.
LastCall(m) ==
    CHOOSE i \in 1..Len(models) :
        /\ models[i] = m
        /\ \A k \in (i + 1)..Len(models) : models[k] # m

\* C3 as stated: whatever the calls did, the returned dict has an entry for
\* every input model, a response for each call that succeeded and None for
\* each call that did not.
C3_EveryCallReported ==
    pc = "fan_done" =>
        \A i \in 1..Len(models) :
            /\ \E j \in 1..Len(result) : result[j].model = models[i]
            /\ calls[i].kind = "resp" => Entry(models[i]).kind = "resp"
            /\ calls[i].kind # "resp" => Entry(models[i]) = None

\* C3 amended: query_models_parallel returns for every combination of call
\* outcomes; the dict has exactly the input models as keys, each once, and
\* the entry of a model is the response of the last call listed for it when
\* that call succeeded and None otherwise (never an exception object).
C3_LastCallReported ==
    /\ (pc = "fan_wait" /\ ~AnyPending) => ENABLED FanReturn
    /\ pc = "fan_done" =>
        /\ {result[j].model : j \in 1..Len(result)}
             = {models[i] : i \in 1..Len(models)}
        /\ \A j, k \in 1..Len(result) :
             result[j].model = result[k].model => j = k
        /\ \A j \in 1..Len(result) :
             /\ result[j].value.kind \in {"resp", "none"}
             /\ result[j].value = Expected(calls[LastCall(result[j].model)])

\* A list that names a model twice, every kind of outcome among the calls.
C3_Witness ==
    /\ pc = "fan_done"
    /\ models = <<1, 2, 1>>
    /\ calls = <<Reply(1), Raised, None>>

\* The input list with every repetition after the first removed.
RECURSIVE FirstOccurrences(_)
FirstOccurrences(ms) ==
    IF ms = <<>> THEN <<>>
    ELSE LET init == SubSeq(ms, 1, Len(ms) - 1)
             m == ms[Len(ms)]
         IN IF \E i \in 1..Len(init) : init[i] = m
            THEN FirstOccurrences(init)
            ELSE Append(FirstOccurrences(init), m)

OnlyOwnSlotChanges ==
    (models' = models /\ Len(calls') = Len(calls) /\ calls' # calls) =>
        /\ \E i \in 1..Len(calls) :
             /\ calls[i] = Pending
             /\ calls'[i] # Pending
             /\ \A j \in 1..Len(calls) : j # i => calls'[j] = calls[j]
        /\ result' = result

\* When a fan-out in which a call failed has returned, every call of a model
\* listed once shows with its own outcome.
OwnOutcomeReported ==
    (pc = "fan_done" /\ \E i \in 1..Len(calls) : calls[i].kind # "resp") =>
        \A i \in 1..Len(models) :
            (\A k \in 1..Len(models) : k # i => models[k] # models[i]) =>
                Entry(models[i]) = Expected(calls[i])

LastEvent == events[Len(events)]

\* C6: once the chairman call of stage 3 has failed, no stage-3 result
\* exists, neither stage3_complete nor complete is ever emitted, and the run
\* ends in a run-level error: the stream's last event is the error event,
\* send_message answers 500 without a body.
C6_ChairmanFailureFatal ==
    chairman.kind \in {"none", "exc"} =>
        /\ stage3_result = NoStage3
        /\ ~Emitted("stage3_complete")
        /\ ~Emitted("complete")
        /\ pc \in {"s3_wait", "done"}
        /\ pc = "done" =>
             IF endpoint = "stream"
             THEN LastEvent = ErrorEvent
             ELSE response = [status |-> 500, body |-> <<>>]

\* A streaming run in which all three council models answered both stages
\* and the chairman call failed.
C6_Witness ==
    /\ endpoint = "stream"
    /\ chairman = None
    /\ pc = "done"
    /\ Len(stage1_results) = NumModels
    /\ Len(stage2_results) = NumModels
    /\ Emitted("error")

Terminal(type) == type \in {"complete", "error"}

\* A step that ends a started streaming run emits exactly one event, a
\* terminal one.
EndsWithTerminal ==
    (endpoint = "stream" /\ pc \notin {"check", "done"} /\ pc' = "done") =>
        \E e \in {ErrorEvent, Event("complete", <<>>, <<>>)} :
            events' = Append(events, e)

\* A terminal event is the last event, and after it the generator is done.
TerminalIsLast ==
    endpoint = "stream" =>
        /\ \A i \in 1..(Len(events) - 1) : ~Terminal(events[i].type)
        /\ (pc = "done" /\ response.status = 200) =>
              (Len(events) > 0 /\ Terminal(LastEvent.type))
        /\ (Len(events) > 0 /\ Terminal(LastEvent.type)) => pc = "done"

\* C7: a streaming run consumed to its end has emitted exactly one terminal
\* event, complete or error, and it is the last event: the step at which the
\* run fails emits error and nothing follows it.
C7_OneTerminalEvent ==
    /\ []TerminalIsLast
    /\ [][EndsWithTerminal]_vars

\* The title task raised after stage3_complete was emitted: the run ended
\* with error as its last event.
C7_Witness ==
    /\ endpoint = "stream"
    /\ pc = "done"
    /\ title_task = "raised"
    /\ Emitted("stage3_complete")
    /\ LastEvent = ErrorEvent
    /\ Len(events) = 7

\* C8 as stated: title_complete is emitted whenever the title task
\* resolves, so once the task has resolved the next event the generator
\* emits is title_complete (or the error that ends the run).
C8_TitleEmittedWhenResolved ==
    [][ (endpoint = "stream" /\ title_task = "done"
         /\ ~Emitted("title_complete") /\ Len(events') > Len(events)) =>
            events'[Len(events) + 1].type \in {"title_complete", "error"}
      ]_vars

\* C8 amended: the title task never delays a stage -- every stage step of
\* the generator is enabled whatever the state of the title task -- but the
\* task is joined only after stage 3: title_complete is emitted after
\* stage3_complete, also when the task resolved earlier.
C8_TitleJoinedAfterStage3 ==
    endpoint = "stream" =>
        /\ Emitted("title_complete") =>
              /\ title_task = "done"
              /\ Emitted("stage3_complete")
              /\ IndexOf("stage3_complete") < IndexOf("title_complete")
        /\ pc = "s1_start" => ENABLED EmitStage1Start
        /\ pc = "s1_issue" => ENABLED Stage1Issue
        /\ pc = "s2_start" => ENABLED EmitStage2Start
        /\ pc = "s2_issue" => ENABLED Stage2Issue
        /\ pc = "s3_start" => ENABLED EmitStage3Start
        /\ pc = "s3_issue" => ENABLED Stage3Issue

\* The title task has resolved while stage 2 is still running, and nothing
\* has been emitted for it.
C8_Witness ==
    /\ endpoint = "stream"
    /\ title_task = "done"
    /\ pc = "s2_wait"
    /\ AnyPending
    /\ EventTypes = <<"stage1_start", "stage1_complete", "stage2_start">>

\* C9: in a streaming run that started a title task, complete is emitted
\* only once the task has resolved, its title is stored and title_complete
\* has been emitted; while the task is pending after stage 3 the generator
\* stays at the join.
C9_CompleteAfterTitle ==
    (endpoint = "stream" /\ title_task # "none") =>
        /\ Emitted("complete") =>
              /\ title_task = "done"
              /\ conv.title = GeneratedTitle
              /\ Emitted("title_complete")
              /\ IndexOf("title_complete") < IndexOf("complete")
        /\ (title_task = "pending" /\ Emitted("stage3_complete")) =>
              /\ pc = "title_join"
              /\ LastEvent.type = "stage3_complete"

\* Stage 3 has completed and the title task is still pending: the run waits.
C9_Witness ==
    /\ endpoint = "stream"
    /\ title_task = "pending"
    /\ pc = "title_join"
    /\ LastEvent.type = "stage3_complete"

\* An event that carries a stage result.
CarriesStageData(e) ==
    e.type \in {"stage1_complete", "stage2_complete", "stage3_complete"}

\* C10 as stated: a run that ended in a run-level error has delivered no
\* stage result to its caller, on either entry point.
C10_NoStageDataOnError ==
    /\ (endpoint = "stream" /\ Emitted("error")) =>
          \A i \in 1..Len(events) : ~CarriesStageData(events[i])
    /\ (endpoint = "sync" /\ response.status >= 400) => response.body = <<>>

\* C10 amended: send_message delivers stage results only with its 200
\* answer, after all three stages completed and the assistant message was
\* stored, and an error answer has no body; a streaming run that ends in
\* error never emits complete, and what it delivered before the error are
\* the results of the stages that had finished.
C10_NoCompleteOnError ==
    /\ endpoint = "sync" =>
          /\ response.status >= 400 => response.body = <<>>
          /\ response.body # <<>> =>
                /\ response.status = 200
                /\ stage3_result # NoStage3
                /\ response.body[1].stage1 = stage1_results
                /\ response.body[1].stage2 = stage2_results
                /\ response.body[1].stage3 = stage3_result
                /\ conv.messages[Len(conv.messages)]
                     = AssistantMessage(stage1_results, stage2_results,
                                        stage3_result)
          /\ events = <<>>
    /\ endpoint = "stream" =>
          /\ Emitted("error") => ~Emitted("complete")
          /\ Emitted("complete") =>
                \A t \in {"stage1_complete", "stage2_complete",
                          "stage3_complete"} : Emitted(t)
          /\ \A i \in 1..Len(events) :
                /\ events[i].type = "stage1_complete" =>
                      events[i].data = <<stage1_results>>
                /\ events[i].type = "stage2_complete" =>
                      events[i].data = <<stage2_results>>
                /\ events[i].type = "stage3_complete" =>
                      events[i].data = <<stage3_result>>

\* A streaming run that delivered the results of stage 1 and stage 2 and
\* then ended in error.
C10_Witness ==
    /\ endpoint = "stream"
    /\ Emitted("error")
    /\ Emitted("stage2_complete")
    /\ ~Emitted("stage3_complete")
    /\ Len(stage1_results) = 1

\* ------------------------------------------------------------------ C11
\* A step of the handler at one of its three storage calls that leaves the
\* stored conversation as it was: the call raised.
StorageCallFails ==
    /\ pc \in {"add_user", "update_title", "save"}
    /\ pc' # pc
    /\ conv' = conv

\* The request has ended in failure: the stream closes on the error event
\* with no completion event, send_message answers with an HTTP error and
\* no CouncilResults.
RequestFailed ==
    /\ pc = "done"
    /\ IF endpoint = "stream"
       THEN LastEvent = ErrorEvent /\ ~Emitted("complete")
       ELSE response.status \in {400, 500} /\ response.body = <<>>

StoredUserMessages ==
    Cardinality({i \in 1..Len(conv.messages) : conv.messages[i].role = "user"})

\* C11: a storage call that raises (add_user_message,
\* update_conversation_title, add_assistant_message) ends the request in
\* failure at that step -- error event and no completion event on the
\* stream, an HTTP error without results from send_message -- and model
\* calls of stage 1 are issued only once the user message is stored.
C11_PersistenceFailureFatal ==
    /\ [][StorageCallFails => RequestFailed']_vars
    /\ [](endpoint \in {"stream", "sync"} /\ fan_stage >= 1
            => StoredUserMessages = IF is_first_message THEN 1 ELSE 2)
    /\ [](pc = "done" => ~AnyPending)

\* The stream of a first message whose results could not be saved: the
\* title was stored and announced, then add_assistant_message raised.
C11_Witness ==
    /\ endpoint = "stream"
    /\ pc = "done"
    /\ Emitted("title_complete")
    /\ LastEvent = ErrorEvent
    /\ conv.title = GeneratedTitle
    /\ conv.messages = <<UserMessage>>

\* ------------------------------------------------------------------ C12
\* C12: every error event of the stream is the same fixed record -- type
\* error, message 'Internal server error', nothing else -- whichever step
\* failed (storage call, title call, chairman call) and however it failed.
C12_GenericErrorEvent ==
    \A i \in 1..Len(events) :
        events[i].type = "error"
            => events[i] = [type |-> "error",
                            data |-> <<"Internal server error">>,
                            metadata |-> <<>>]

\* The stream failed because the chairman call raised inside query_model.
C12_Witness ==
    /\ endpoint = "stream"
    /\ chairman = Raised
    /\ pc = "done"
    /\ LastEvent.type = "error"

\* ------------------------------------------------------------------ C13
\* The models whose call of the batch just gathered returned a response,
\* in input order.
SucceededModels ==
    SelectSeq(models, LAMBDA m : \E i \in 1..Len(calls) :
                                     models[i] = m /\ calls[i].kind = "resp")

\* Stage 1 has returned and its calls are still the gathered batch.
Stage1Gathered == fan_stage = 1 /\ pc \in {"s2_start", "s2_issue"}

\* LabelToModel of the stage-1 results is one-to-one, labels 1..n (A, B,
\* C, ...) going to exactly the models whose stage-1 call succeeded, in the
\* order of the results; n is the number of successful calls.
MappingCoversSuccesses ==
    Stage1Gathered =>
        LET l2m == LabelToModel(stage1_results)
        IN /\ Injective(l2m)
           /\ l2m = SucceededModels
           /\ Len(l2m) = Cardinality({i \in 1..Len(calls) :
                                          calls[i].kind = "resp"})
           /\ \A i \in 1..Len(calls) :
                  calls[i].kind # "resp" =>
                      /\ models[i] \notin Range(l2m)
                      /\ \A j \in 1..Len(stage1_results) :
                             stage1_results[j].model # models[i]

\* Stage 2 has returned.
Stage2Returned ==
    pc \in {"s3_start", "s3_issue", "s3_wait", "title_join", "update_title",
            "title_complete", "save", "finish"}

\* The mapping handed on by stage 2 is that of the stage-1 results, and
\* every label of every parsed ranking is one of its keys.
RankingsUseMappedLabels ==
    Stage2Returned =>
        /\ label_to_model = LabelToModel(stage1_results)
        /\ \A k \in 1..Len(stage2_results) :
               /\ Range(stage2_results[k].parsed_ranking)
                      \subseteq DOMAIN label_to_model
               /\ stage2_results[k].model \in Range(label_to_model)

\* C13: the label mapping used for stage 2 is a bijection between the
\* labels and the models whose stage-1 call succeeded, labels assigned by
\* position in the stage-1 results; a model whose call failed is in neither
\* the results nor the mapping, and no stage-2 ranking holds a label
\* outside the mapping.
C13_LabelBijection ==
    /\ []MappingCoversSuccesses
    /\ []RankingsUseMappedLabels
    /\ [][fan_stage >= 1 /\ pc # "s1_wait"
             => stage1_results' = stage1_results]_vars

\* The second council model failed stage 1: labels A and B go to the
\* first and the third model, and both judges ranked exactly A and B
\* although their texts also name C.
C13_Witness ==
    /\ pc = "s3_start"
    /\ label_to_model = <<1, 3>>
    /\ Len(stage2_results) = 2
    /\ stage2_results[1].parsed_ranking = <<1, 2>>
    /\ stage2_results[2].parsed_ranking = <<2, 1>>
    /\ 3 \in Range(stage2_results[1].ranking)

\* ------------------------------------------------------------------ C14
\* Index of the first occurrence of token t in a text that holds it.
FirstIndex(text, t) ==
    CHOOSE i \in 1..Len(text) :
        text[i] = t /\ \A j \in 1..(i - 1) : text[j] # t

\* C14: for every ranking text and valid label set the parser returns a
\* sequence that holds each label at most once, holds valid labels only,
\* and lists them in the order of their first occurrence in the text; a
\* text without a valid label gives the empty sequence, not an error.
C14_ParsedRankingWellFormed ==
    (endpoint = "parse_ranking" /\ pc = "lib_done") =>
        LET parsed == ret.value
        IN /\ ret.raises = "none"
           /\ Injective(parsed)
           /\ Range(parsed) \subseteq args.valid
           /\ Range(parsed) \subseteq Range(args.text)
           /\ \A i, j \in 1..Len(parsed) :
                  i < j => FirstIndex(args.text, parsed[i])
                             < FirstIndex(args.text, parsed[j])
           /\ Range(args.text) \cap args.valid = {} => parsed = <<>>

\* The text "B C B A" parsed with labels A and B valid: the unknown label
\* and the repeated B are dropped.
C14_Witness ==
    /\ endpoint = "parse_ranking"
    /\ pc = "lib_done"
    /\ args.text = <<2, 3, 2, 1>>
    /\ args.valid = {1, 2}
    /\ ret.value = <<2, 1>>

\* ------------------------------------------------------------------ C15
\* The judges (indices into the rankings) that mention label l.
Mentioning(s2, l) == {k \in 1..Len(s2) : l \in Range(s2[k].parsed_ranking)}

\* Sum over the judges in K of the 1-indexed position they give label l.
RECURSIVE PositionSum(_, _, _)
PositionSum(s2, l, K) ==
    IF K = {} THEN 0
    ELSE LET k == CHOOSE x \in K : TRUE
             r == s2[k].parsed_ranking
         IN (CHOOSE p \in 1..Len(r) : r[p] = l) + PositionSum(s2, l, K \ {k})

AggregateDone == endpoint = "aggregate" /\ pc = "lib_done"

\* C15: the aggregate holds exactly one entry for each model whose label
\* is in at least one parsed ranking and none for any other model; the
\* entry's rankings_count is the number of rankings holding the label, its
\* average_rank the mean of the label's 1-indexed positions in them, so
\* 1 <= average_rank <= number of labels and rankings_count <= number of
\* judges.
C15_AggregateEntries ==
    AggregateDone =>
        LET s2 == args.stage2
            l2m == args.label_to_model
            agg == ret.value
        IN /\ \A j \in 1..Len(agg) : agg[j].model \in Range(l2m)
           /\ \A l \in DOMAIN l2m :
                  LET K == Mentioning(s2, l)
                      mine == {j \in 1..Len(agg) : agg[j].model = l2m[l]}
                  IN /\ Cardinality(mine) = IF K = {} THEN 0 ELSE 1
                     /\ \A j \in mine :
                           /\ agg[j].rankings_count = Cardinality(K)
                           /\ agg[j].average_rank
                                  = <<PositionSum(s2, l, K), Cardinality(K)>>
           /\ \A j \in 1..Len(agg) :
                  LET avg == agg[j].average_rank
                  IN /\ avg[2] >= 1
                     /\ avg[2] <= avg[1]
                     /\ avg[1] <= Len(l2m) * avg[2]
                     /\ agg[j].rankings_count <= Len(s2)

\* Three judges rank [A], [B, A] and nothing: A is ranked twice at mean
\* 3/2, B once at 1, and the silent judge adds no entry.
C15_Witness ==
    /\ AggregateDone
    /\ Len(args.stage2) = 3
    /\ args.stage2[1].parsed_ranking = <<1>>
    /\ args.stage2[2].parsed_ranking = <<2, 1>>
    /\ args.stage2[3].parsed_ranking = <<>>
    /\ Len(ret.value) = 2
    /\ ret.value[2].average_rank = <<3, 2>>
    /\ ret.value[2].rankings_count = 2

\* ------------------------------------------------------------------ C16
\* The documented order: lower average_rank first, then the higher
\* rankings_count, then the model identifier.
RankedBefore(x, y) ==
    LET a == x.average_rank
        b == y.average_rank
    IN \/ a[1] * b[2] < b[1] * a[2]
       \/ /\ a[1] * b[2] = b[1] * a[2]
          /\ \/ x.rankings_count > y.rankings_count
             \/ /\ x.rankings_count = y.rankings_count
                /\ x.model < y.model

\* The rankings with those of judges k and k + 1 exchanged.
Exchange(s2, k) ==
    [i \in 1..Len(s2) |-> IF i = k THEN s2[k + 1]
                          ELSE IF i = k + 1 THEN s2[k]
                          ELSE s2[i]]

\* C16: the aggregate is strictly ordered by average_rank ascending, ties
\* by the higher rankings_count, then by model identifier, and it does not
\* depend on the order in which the rankings are given: exchanging any two
\* neighbouring rankings (every reordering is a chain of such exchanges)
\* gives the identical sequence.
C16_AggregateOrder ==
    AggregateDone =>
        LET s2 == args.stage2
            agg == ret.value
        IN /\ \A i, j \in 1..Len(agg) : i < j => RankedBefore(agg[i], agg[j])
           /\ \A k \in 1..(Len(s2) - 1) :
                  CalculateAggregateRankings(Exchange(s2, k),
                                             args.label_to_model) = agg

\* Rankings [B], [A], [A], B being the model of the lower identifier and
\* the first one mentioned: both means are 1, A comes first on its count
\* of 2.
C16_Witness ==
    /\ AggregateDone
    /\ Len(args.stage2) = 3
    /\ args.stage2[1].parsed_ranking = <<2>>
    /\ args.stage2[2].parsed_ranking = <<1>>
    /\ args.stage2[3].parsed_ranking = <<1>>
    /\ Len(ret.value) = 2
    /\ ret.value[1].model = args.label_to_model[1]
    /\ ret.value[2].model = args.label_to_model[2]
    /\ ret.value[2].model < ret.value[1].model

\* ------------------------------------------------------------------ C17
\* Stage 1 has returned without a single successful response.
AllStage1Failed ==
    /\ endpoint \in {"stream", "sync"}
    /\ fan_stage >= 1
    /\ pc # "s1_wait"
    /\ stage1_results = <<>>

\* A step that takes the run forward: the handler moves on, or a call it
\* is waiting for ends.
Progress ==
    /\ Next
    /\ \/ pc' # pc
       \/ chairman' # chairman
       \/ pc = "title_join" /\ title_task' # title_task

\* The payload of the first event of the given type.
PayloadOf(type) == events[IndexOf(type)].data[1]

\* C17: when every council model fails stage 1 the fan-out still returns,
\* with every model marked failed; stages 2 and 3 run on empty input (no
\* label, no judge, no ranking); the run is never stuck and ends in an
\* error or in a result whose stage-1 and stage-2 sequences are empty.
C17_AllFailedNoCrash ==
    /\ (fan_stage = 1 /\ pc \in {"s2_start", "s2_issue"}
          /\ \A i \in 1..Len(calls) : calls[i].kind # "resp")
         => /\ stage1_results = <<>>
            /\ result = [i \in 1..Len(models) |->
                            [model |-> models[i], value |-> None]]
    /\ AllStage1Failed =>
         /\ stage2_results = <<>>
         /\ label_to_model = <<>>
         /\ fan_stage = 2 => models = <<>> /\ calls = <<>>
         /\ pc # "done" => ENABLED Progress
         /\ pc = "done" =>
              IF endpoint = "stream"
              THEN /\ LastEvent.type \in {"complete", "error"}
                   /\ Emitted("stage1_complete")
                        => PayloadOf("stage1_complete") = <<>>
                   /\ Emitted("stage2_complete")
                        => PayloadOf("stage2_complete") = <<>>
              ELSE \/ response.status \in {400, 500}
                   \/ /\ response.status = 200
                      /\ response.body[1].stage1 = <<>>
                      /\ response.body[1].stage2 = <<>>

\* Every council model failed and the chairman still answered: the stream
\* completed with empty stage-1 and stage-2 results.
C17_Witness ==
    /\ endpoint = "stream"
    /\ pc = "done"
    /\ fan_stage = 2
    /\ stage1_results = <<>>
    /\ stage3_result # NoStage3
    /\ LastEvent.type = "complete"

\* ------------------------------------------------------------------ C18
\* C18: a request for a conversation that storage.get_conversation does
\* not find is answered with HTTP 404 by get_conversation, send_message and
\* send_message_stream, without a storage write and without a model call.
\* (Violated: the HTTPException carrying 404 is raised inside the try of
\* each handler and turned into 500 by its `except Exception` clause.)
C18_NotFoundIs404 ==
    (pc = "done" /\ ~conv.exists) =>
        /\ response.status = 404
        /\ conv = NoConv
        /\ fan_stage = 0
        /\ calls = <<>>
        /\ chairman = NotIssued
        /\ title_task = "none"

\* ------------------------------------------------------------------ C19
\* storage.get_conversation has just returned.
GetDone ==
    endpoint = "storage" /\ pc = "lib_done" /\ args.op = "get_conversation"

\* get_conversation(id) right after a successful create_conversation(id).
GetAfterCreate ==
    /\ args.op = "create_conversation"
    /\ ret.raises = "none"
    /\ args'.op = "get_conversation"
    /\ args'.id = args.id

BadId(id) ==
    \/ ~id.is_str
    \/ id.chars = <<>>
    \/ \E i \in 1..Len(id.chars) : id.chars[i] \notin IdChars

\* C20: create_conversation called with an id that is empty, not a string
\* or holds a character outside letters, digits, hyphen and underscore
\* raises ValueError and leaves the store as it was.
\* (Violated by an id that ends in a newline: `$` of the validation
\* pattern matches before it, so the id is accepted and a file created.)
C20_InvalidIdRejected ==
    [][(endpoint = "storage" /\ args'.op = "create_conversation"
          /\ BadId(args'.id))
         => (ret'.raises = "ValueError" /\ files' = files)]_vars

\* ------------------------------------------------------------------ C21
\* What a call add_user_message(id, content) must leave behind.
UserMessageAdded(id, content) ==
    /\ (content = "" \/ files[id].state # "json") =>
          /\ ret'.raises = "ValueError"
          /\ files' = files
    /\ ret'.raises = "none" =>
          /\ files[id].state = "json"
          /\ files'[id].state = "json"
          /\ files'[id].conv.messages =
                Append(files[id].conv.messages,
                       [role |-> "user", content |-> content])
          /\ files'[id].conv.id = files[id].conv.id
          /\ files'[id].conv.title = files[id].conv.title
          /\ files'[id].conv.created_at = files[id].conv.created_at
          /\ \A other \in DOMAIN files \ {id} : files'[other] = files[other]

\* C21: a successful add_user_message(id, content) appends exactly the
\* message {role: "user", content} at the end of the conversation's messages
\* and leaves its id, title, created_at, the earlier messages and every
\* other file as they were; with empty content or without a stored
\* conversation it raises ValueError and no file changes.
C21_AddUserMessageFrame ==
    [][\A content \in Contents, io \in IoOutcomes :
          add_user_message(args'.id, content, io) =>
              UserMessageAdded(args'.id, content)]_vars

\* A second message has been appended to a conversation whose title was
\* changed, next to another stored conversation.
C21_Witness ==
    /\ args.op = "add_user_message"
    /\ ret.raises = "none"
    /\ Len(files[args.id].conv.messages) = 2
    /\ files[args.id].conv.title = "T"
    /\ \E other \in DOMAIN files \ {args.id} : files[other].state = "json"

\* ------------------------------------------------------------------ C22
\* list_conversations has returned.
ListDone == args.op = "list_conversations" /\ ret # NotCalled

\* The ids of the stored conversations.
Stored == {id \in DOMAIN files : files[id].state = "json"}

\* The clock reading a created_at timestamp was taken at.
ReadingOf(created_at) ==
    CHOOSE t \in 0..MaxClock : isoformat(t) = created_at

\* The list holds exactly one entry for every stored conversation: its id,
\* created_at, title and number of messages, and nothing else.
OneEntryEach(list) ==
    /\ Len(list) = Cardinality(Stored)
    /\ \A id \in Stored :
          \E i \in DOMAIN list :
              /\ DOMAIN list[i] = {"id", "created_at", "title", "message_count"}
              /\ list[i].id = id
              /\ list[i].created_at = files[id].conv.created_at
              /\ list[i].title = files[id].conv.title
              /\ list[i].message_count = Len(files[id].conv.messages)

EarlierMessages == IF is_first_message THEN 0 ELSE Len(OldConversation.messages)

\* The user message of this run is stored.
UserMessageStored ==
    /\ Len(conv.messages) > EarlierMessages
    /\ conv.messages[EarlierMessages + 1] = UserMessage

\* The assistant message of this run is stored.
AssistantMessageStored == Len(conv.messages) = EarlierMessages + 2

\* A call to a model has been issued: the title call, a call of the
\* fan-out, or the chairman's.
ModelCallIssued ==
    title_task # "none" \/ calls # <<>> \/ chairman # NotIssued

\* C24: in every streaming run the user message is stored before
\* stage1_start is emitted and before any model call is issued; the
\* assistant message is saved at most once, only after stage3_complete and
\* with exactly the stage-1, stage-2 and stage-3 results this run emitted;
\* complete is emitted only after that save has succeeded.
C24_StreamPersistenceOrder ==
    /\ [](endpoint = "stream" /\ pc # "check" =>
            /\ (Emitted("stage1_start") \/ ModelCallIssued) => UserMessageStored
            /\ Len(conv.messages) <= EarlierMessages + 2
            /\ AssistantMessageStored =>
                  /\ UserMessageStored
                  /\ Emitted("stage3_complete")
                  /\ conv.messages[EarlierMessages + 2] =
                        AssistantMessage(PayloadOf("stage1_complete"),
                                         PayloadOf("stage2_complete"),
                                         PayloadOf("stage3_complete"))
            /\ Emitted("complete") => AssistantMessageStored)
    /\ [][endpoint = "stream" /\ AssistantMessageStored =>
            conv'.messages = conv.messages]_vars

\* A streaming run on a conversation with earlier messages has emitted
\* complete: its user message and its assistant message follow them.
C24_Witness ==
    /\ endpoint = "stream"
    /\ pc = "done"
    /\ Emitted("complete")
    /\ ~is_first_message
    /\ Len(conv.messages) = Len(OldConversation.messages) + 2

\* ------------------------------------------------------------------ C27
\* The streaming run fails at the title: `await title_task` raises, or
\* update_conversation_title does.
TitleStepFails ==
    /\ endpoint = "stream"
    /\ pc \in {"title_join", "update_title"}
    /\ pc' = "done"

OneGlobalClient ==
    _client' # _client =>
        \/ /\ _client = NoClient
           /\ _client' = Len(clients) + 1
           /\ clients'[_client'] = "open"
        \/ /\ _client' = NoClient
           /\ \E t \in DOMAIN tasks :
                 tasks[t].kind = "close" /\ tasks'[t].pc = "done"

\* A coroutine that is given the shared client is given the global one,
\* which it leaves in place if there was one.
CallersReceiveGlobal ==
    \A t \in DOMAIN tasks :
        tasks'[t].shared # tasks[t].shared =>
            /\ tasks'[t].shared = _client'
            /\ _client # NoClient => _client' = _client

\* A client is closed only by close_http_client, or by the query_model
\* call with a timeout that made it for itself.
ClosedByOwner ==
    \A k \in DOMAIN clients :
        (clients[k] = "open" /\ clients'[k] = "closed") =>
            \E t \in DOMAIN tasks :
                /\ tasks[t].pc = "aclose" /\ tasks'[t].pc = "done"
                /\ tasks[t].client = k
                /\ tasks[t].kind = "query" =>
                      /\ tasks[t].timeout
                      /\ k # _client
                      /\ \A u \in DOMAIN tasks : tasks[u].shared # k

\* C23: the global client is made only when there is none, so at most one
\* is made between two closes, and every caller of get_http_client receives
\* it; a query_model call without a timeout -- every call gathered by
\* query_models_parallel -- posts with it; a query_model call with a
\* timeout posts with a client of its own, which it closes on every way out
\* of the call, and closes no other.
C23_SharedHttpClient ==
    /\ [][OneGlobalClient /\ CallersReceiveGlobal /\ ClosedByOwner]_vars
    /\ [](\A t \in DOMAIN tasks :
            /\ tasks[t].via = "parallel" => ~tasks[t].timeout
            /\ (tasks[t].kind = "query" /\ tasks[t].client # NoClient) =>
                  IF tasks[t].timeout
                  THEN /\ tasks[t].client \notin {_client, tasks[t].shared}
                       /\ tasks[t].pc = "done" =>
                             clients[tasks[t].client] = "closed"
                  ELSE tasks[t].client = tasks[t].shared)

\* A query_model call with a timeout has returned and closed its own
\* client, while a call gathered by query_models_parallel holds the global
\* client, which is still open.
C23_Witness ==
    \E t, u \in DOMAIN tasks :
        /\ tasks[t].kind = "query" /\ tasks[t].timeout
        /\ tasks[t].pc = "done"
        /\ tasks[t].client # NoClient
        /\ clients[tasks[t].client] = "closed"
        /\ tasks[u].via = "parallel"
        /\ tasks[u].client = _client
        /\ tasks[u].shared = tasks[t].shared
        /\ _client # NoClient
        /\ clients[_client] = "open"

\* ------------------------------------------------------------------ C26
\* Every concurrent call has returned without an exception.
AllWritersReturned ==
    \A t \in DOMAIN tasks : tasks[t].pc = "done" /\ tasks[t].raises = "none"

\* The writers that append a message, and those that set the title.
Appenders ==
    {t \in DOMAIN tasks : tasks[t].op # "update_conversation_title"}
TitleWriters ==
    {t \in DOMAIN tasks : tasks[t].op = "update_conversation_title"}

\* C26: once all concurrent add_user_message, add_assistant_message and
\* update_conversation_title calls on a conversation have returned
\* successfully, the stored conversation holds every appended message
\* exactly once and the title of the update that was written last.
C26_NoLostWrite ==
    (endpoint = "writes" /\ AllWritersReturned) =>
        LET c == files[WriteId].conv
        IN /\ files[WriteId].state = "json"
           /\ Len(c.messages) = Cardinality(Appenders)
           /\ \A t \in Appenders :
                 \E i \in DOMAIN c.messages : c.messages[i] = MessageOf(tasks[t])
           /\ \A t \in TitleWriters :
                 (\A u \in TitleWriters : tasks[u].seq <= tasks[t].seq) =>
                     c.title = Strip(tasks[t].arg)

\* ------------------------------------------------------------------ C25
\* The requests that had a title generated.
TitleGenerators == {r \in DOMAIN tasks : tasks[r].generated}

\* C25: over any interleaving of send_message and send_message_stream
\* requests on one conversation, at most one request generates and stores a
\* title, the one whose user message is the first stored message of the
\* conversation.
C25_TitleOnlyForFirstMessage ==
    endpoint = "requests" =>
        /\ Cardinality(TitleGenerators) <= 1
        /\ \A r \in DOMAIN tasks :
              (tasks[r].generated \/ tasks[r].stored) =>
                  conv.messages[1] = RequestMessage(r)

\* ------------------------------------------------------------------ C28
\* What a call generate_title_cached(query) must do: on a hit return the
\* title cached under the key and leave the cache as it is, on a miss
\* return the title made from the query.
TitleCalled(query) ==
    LET at == CachedAt(_title_cache, CacheKey(query))
    IN IF at > 0
       THEN /\ ret'.value = <<_title_cache[at].title>>
            /\ _title_cache' = _title_cache
       ELSE /\ ret'.value = <<TitleOf(query)>>
            /\ CachedAt(_title_cache', CacheKey(query)) > 0

\* C28 (as the code has it): the title cache never holds more than the
\* limit of entries, nor two entries under one key; a call for a query whose
\* key is cached returns the cached title -- the title of the query that
\* put the key there -- and leaves the cache unchanged; a call for a query
\* whose key is not cached returns the query itself when it is no longer
\* than the title length, and otherwise its first characters up to that
\* length followed by "...".
C28_TitleCache ==
    /\ [](/\ Len(_title_cache) <= CacheLimit
          /\ \A i, j \in DOMAIN _title_cache :
                _title_cache[i].key = _title_cache[j].key => i = j)
    /\ [][\A query \in Queries :
            generate_title_cached(query) => TitleCalled(query)]_vars

\* The cache is full and the last call, for a query longer than a title,
\* repeated the call before it: a hit that returned the shortened title.
C28_Witness ==
    /\ endpoint = "cache"
    /\ Len(_title_cache) = CacheLimit
    /\ Len(args) >= 2
    /\ args[Len(args)] = args[Len(args) - 1]
    /\ Len(args[Len(args)]) > TitleChars
    /\ ret.value = <<TitleOf(args[Len(args)])>>

\* C28 (as stated): the title a call returns is always the title made from
\* its own query.
C28_TitleOfOwnQuery ==
    [][\A query \in Queries :
          generate_title_cached(query) => ret'.value = <<TitleOf(query)>>]_vars

\* ------------------------------------------------------------------ C29
\* The last call, among those made so far, that used the key.
LastUse(key) ==
    LET uses == {i \in DOMAIN args : CacheKey(args[i]) = key}
    IN IF uses = {} THEN 0
       ELSE CHOOSE i \in uses : \A j \in uses : j <= i

\* The keys in the cache.
CachedKeys(cache) == {cache[i].key : i \in DOMAIN cache}

\* C29: the entry removed when the cache exceeds its limit is the least
\* recently used one: every entry that stays was used, by its insertion or
\* by a later hit, after the last use of the removed entry.
C29_EvictsLeastRecentlyUsed ==
    [][\A gone \in CachedKeys(_title_cache) \ CachedKeys(_title_cache') :
          \A kept \in CachedKeys(_title_cache) \ {gone} :
              LastUse(gone) < LastUse(kept)]_vars

====
